---- MODULE Spec2Model ----
(***************************************************************************)
(* Model of the risk engine of kyc-geointelligent (app/risk_analyzer.py,   *)
(* config.py).  RiskAnalyzer.analyze_comprehensive_risk scores an address  *)
(* record, a satellite record and a business type with three rule sets,    *)
(* fuses the three scores with fixed weights and classifies the result     *)
(* against two thresholds read from the environment.                       *)
(*                                                                         *)
(* Python floats are IEEE-754 binary64.  The scores are sums and products  *)
(* of decimal literals, and the rounding of those operations decides on    *)
(* which side of a threshold a score falls (0.1*0.3 + 0.7*0.4 + 0.3*0.3 is *)
(* 0.3999999999999999, not 0.4), so the arithmetic is modelled bit for     *)
(* bit: a float x >= 0 is the pair <<h, l>> with x = (h * 2^30 + l) / 2^58,*)
(* every operation computes the exact result and rounds it to 53           *)
(* significant bits, ties to even.  The representation covers 0 and the    *)
(* range [2^-6, 8), which holds every value the engine computes.           *)
(***************************************************************************)
EXTENDS Integers, Sequences, FiniteSets, TLC

----------------------------------------------------------------------------
(* binary64 arithmetic *)

B15 == 2^15
B30 == 2^30

Pow2 == [p \in 0..30 |-> 2^p]

FZero == <<0, 0>>

RECURSIVE BitLenFrom(_, _)
BitLenFrom(h, p) ==
    IF p = 0 \/ h >= Pow2[p - 1] THEN p ELSE BitLenFrom(h, p - 1)

\* number of significant bits of the high word
BitLen(h) == BitLenFrom(h, 31)

\* fraction below the 2^-58 grid: 0 none, 1 below half, 2 half, 3 above half
FracOf(rem, den) ==
    IF rem = 0 THEN 0
    ELSE IF 2 * rem < den THEN 1
    ELSE IF 2 * rem = den THEN 2
    ELSE 3

\* round h * 2^30 + l (+ frac) to 53 significant bits, ties to even
FRound(h, l, frac) ==
    LET d    == BitLen(h) - 23
        unit == IF d > 0 THEN Pow2[d] ELSE 1
        r    == l % unit
        keep == l - r
        odd  == ((l \div unit) % 2) = 1
        up   == IF d > 0
                THEN \/ 2 * r > unit
                     \/ 2 * r = unit /\ (frac > 0 \/ odd)
                ELSE \/ frac = 3
                     \/ frac = 2 /\ odd
        l2   == IF up THEN keep + unit ELSE keep
    IN  IF l2 >= B30 THEN <<h + 1, l2 - B30>> ELSE <<h, l2>>

\* float(n) for a small non-negative int
FInt(n) == <<n * Pow2[28], 0>>

\* the float a decimal literal n/m denotes (0 <= n/m < 8, m <= 1000)
Dec(n, m) ==
    LET q0 == n \div m
        r0 == n % m
        q1 == (r0 * Pow2[14]) \div m
        r1 == (r0 * Pow2[14]) % m
        q2 == (r1 * Pow2[14]) \div m
        r2 == (r1 * Pow2[14]) % m
        q3 == (r2 * B15) \div m
        r3 == (r2 * B15) % m
        q4 == (r3 * B15) \div m
        r4 == (r3 * B15) % m
    IN  FRound(q0 * Pow2[28] + q1 * Pow2[14] + q2, q3 * B15 + q4, FracOf(r4, m))

\* the floats of the literals 0.0, 0.1, ... 1.0 and 0.15, 0.35, 0.55
Tenths == [n \in 0..10 |-> Dec(n, 10)]
Hundredths == [n \in {15, 35, 55} |-> Dec(n, 100)]

FAdd(x, y) ==
    LET s == x[2] + y[2]
    IN  IF s >= B30 THEN FRound(x[1] + y[1] + 1, s - B30, 0)
        ELSE FRound(x[1] + y[1], s, 0)

Lo15(n) == n % B15
Hi15(n) == n \div B15

FMul(x, y) ==
    IF x = FZero \/ y = FZero THEN FZero
    ELSE
    \* 15-bit limbs, least significant first
    LET x0 == x[2] % B15
        x1 == x[2] \div B15
        x2 == x[1] % B15
        x3 == x[1] \div B15
        y0 == y[2] % B15
        y1 == y[2] \div B15
        y2 == y[1] % B15
        y3 == y[1] \div B15
        \* column sums of the partial products, each split at 15 bits
        p00 == x0 * y0  p01 == x0 * y1  p02 == x0 * y2  p03 == x0 * y3
        p10 == x1 * y0  p11 == x1 * y1  p12 == x1 * y2  p13 == x1 * y3
        p20 == x2 * y0  p21 == x2 * y1  p22 == x2 * y2  p23 == x2 * y3
        p30 == x3 * y0  p31 == x3 * y1  p32 == x3 * y2  p33 == x3 * y3
        s0 == Lo15(p00)
        s1 == Lo15(p01) + Lo15(p10) + Hi15(p00)
        s2 == Lo15(p02) + Lo15(p11) + Lo15(p20)
              + Hi15(p01) + Hi15(p10)
        s3 == Lo15(p03) + Lo15(p12) + Lo15(p21) + Lo15(p30)
              + Hi15(p02) + Hi15(p11) + Hi15(p20)
        s4 == Lo15(p13) + Lo15(p22) + Lo15(p31)
              + Hi15(p03) + Hi15(p12) + Hi15(p21) + Hi15(p30)
        s5 == Lo15(p23) + Lo15(p32)
              + Hi15(p13) + Hi15(p22) + Hi15(p31)
        s6 == Lo15(p33) + Hi15(p23) + Hi15(p32)
        s7 == Hi15(p33)
        \* carry propagation
        t1 == s1 + Hi15(s0)
        t2 == s2 + Hi15(t1)
        t3 == s3 + Hi15(t2)
        t4 == s4 + Hi15(t3)
        t5 == s5 + Hi15(t4)
        t6 == s6 + Hi15(t5)
        c0 == Lo15(s0)
        c1 == Lo15(t1)
        c2 == Lo15(t2)
        c3 == Lo15(t3)
        c4 == Lo15(t4)
        c5 == Lo15(t5)
        c6 == Lo15(t6)
        c7 == s7 + Hi15(t6)
        \* the product is sum c_k 2^(15 k) in units of 2^-116
        g     == c3 % Pow2[13]
        below == c0 # 0 \/ c1 # 0 \/ c2 # 0
        frac  == IF g > Pow2[12] THEN 3
                 ELSE IF g = Pow2[12] THEN (IF below THEN 3 ELSE 2)
                 ELSE IF g = 0 /\ ~below THEN 0
                 ELSE 1
        l == (c3 \div Pow2[13]) + c4 * 4 + (c5 % Pow2[13]) * Pow2[17]
        h == (c5 \div Pow2[13]) + c6 * 4 + c7 * Pow2[17]
    IN  FRound(h, l, frac)

\* x / n for a small positive int n
FDivInt(x, n) ==
    LET qh == x[1] \div n
        rh == x[1] % n
        t1 == rh * B15 + (x[2] \div B15)
        t0 == (t1 % n) * B15 + (x[2] % B15)
    IN  FRound(qh, (t1 \div n) * B15 + (t0 \div n), FracOf(t0 % n, n))

FLt(x, y) == x[1] < y[1] \/ (x[1] = y[1] /\ x[2] < y[2])
FGe(x, y) == ~FLt(x, y)
FLe(x, y) == ~FLt(y, x)
FGt(x, y) == FLt(y, x)
FMin(x, y) == IF FLt(y, x) THEN y ELSE x

----------------------------------------------------------------------------
(* strings *)

Min(a, b) == IF a < b THEN a ELSE b

\* s[:n] of a Python list
Take(s, n) == SubSeq(s, 1, Min(n, Len(s)))

LowerCase ==
    "A" :> "a" @@ "B" :> "b" @@ "C" :> "c" @@ "D" :> "d" @@
    "E" :> "e" @@ "F" :> "f" @@ "G" :> "g" @@ "H" :> "h" @@
    "I" :> "i" @@ "J" :> "j" @@ "K" :> "k" @@ "L" :> "l" @@
    "M" :> "m" @@ "N" :> "n" @@ "O" :> "o" @@ "P" :> "p" @@
    "Q" :> "q" @@ "R" :> "r" @@ "S" :> "s" @@ "T" :> "t" @@
    "U" :> "u" @@ "V" :> "v" @@ "W" :> "w" @@ "X" :> "x" @@
    "Y" :> "y" @@ "Z" :> "z"

LowerChar(c) == IF c \in DOMAIN LowerCase THEN LowerCase[c] ELSE c

RECURSIVE Lower(_)
\* str.lower()
Lower(s) ==
    IF Len(s) = 0 THEN ""
    ELSE LowerChar(SubSeq(s, 1, 1)) \o Lower(SubSeq(s, 2, Len(s)))

\* sub in s
Contains(s, sub) ==
    \E i \in 1..(Len(s) - Len(sub) + 1) : SubSeq(s, i, i + Len(sub) - 1) = sub

\* ContainsLower without the lowering: sub in s
ContainsCaseSensitive(s, sub) ==
    \E i \in 1..(Len(s) - Len(sub) + 1) : SubSeq(s, i, i + Len(sub) - 1) = sub

\* sub in s.lower(), for a lower-case sub: lower() maps character by
\* character, so the match is looked for at the places whose lowered
\* character starts sub
ContainsLower(s, sub) ==
    \E i \in 1..(Len(s) - Len(sub) + 1) :
        /\ LowerChar(SubSeq(s, i, i)) = SubSeq(sub, 1, 1)
        /\ Lower(SubSeq(s, i, i + Len(sub) - 1)) = sub

----------------------------------------------------------------------------
(* input domains *)

MaxPositiveIndicators == 4
MaxRiskIndicators == 5

BusinessTypes ==
    {"logistics", "transport", "manufacturing", "technology", "retail",
     "Logistics", "Technology"}

LocationTypes == {"residential", "commercial", "industrial", "mixed"}

NeighborhoodContexts == {"urban", "remote"}

AmenityLists == {<<"school">>, <<"school", "bank">>}

AddressData ==
    [is_valid : BOOLEAN,
     location_type : LocationTypes,
     neighborhood_context : NeighborhoodContexts,
     nearby_amenities : AmenityLists]

BuildingDetections ==
    {[building_count |-> 0, total_building_area |-> 0, largest_building_area |-> 0],
     [building_count |-> 1, total_building_area |-> 500, largest_building_area |-> 500],
     [building_count |-> 3, total_building_area |-> 8000, largest_building_area |-> 6000]}

VehicleCounts == {0, 1, 6}

\* lines of the AI answer that _parse_ai_response keeps as indicators
PositiveIndicator(i) ==
    CASE i = 1 -> "large warehouse structure"
      [] i = 2 -> "loading docks on the north side"
      [] i = 3 -> "commercial vehicles parked"
      [] i = 4 -> "industrial zone surroundings"
      [] OTHER -> "office building nearby"

RiskIndicator(i) ==
    CASE i = 1 -> "lot appears empty"
      [] i = 2 -> "suspicious lack of signage"
      [] i = 3 -> "residential houses around"
      [] i = 4 -> "possible facade"
      [] i = 5 -> "inappropriate for declared activity"
      [] OTHER -> "shell structure"

PositiveIndicatorLists ==
    {[i \in 1..n |-> PositiveIndicator(i)] : n \in 0..MaxPositiveIndicators}

\* the AI answer may repeat a line, and _parse_ai_response keeps both
RepeatedRiskIndicators == <<RiskIndicator(1), RiskIndicator(1)>>

RiskIndicatorLists ==
    {[i \in 1..n |-> RiskIndicator(i)] : n \in 0..MaxRiskIndicators}
        \cup {RepeatedRiskIndicators}

ConfidenceScores == {Tenths[2], Tenths[5]}

VisualFeatures ==
    [building_detection : BuildingDetections,
     vehicle_detection : [vehicle_count : VehicleCounts]]

\* results of analyze_location that went through the AI step
CompletedAnalyses ==
    [analysis_completed : {TRUE},
     visual_features : VisualFeatures,
     infrastructure_assessment : [positive_indicators : PositiveIndicatorLists],
     risk_indicators : RiskIndicatorLists,
     confidence_score : ConfidenceScores]

\* results of analyze_location that returned before the AI step: the
\* indicator lists and the confidence are as the result was initialised
FailedAnalyses ==
    [analysis_completed : {FALSE},
     visual_features : VisualFeatures,
     infrastructure_assessment : [positive_indicators : {<<>>}],
     risk_indicators : {<<>>},
     confidence_score : {FZero}]

SatelliteData == CompletedAnalyses \cup FailedAnalyses

Requests ==
    [cnpj : {"12345678000190"},
     address_data : AddressData,
     satellite_data : SatelliteData,
     business_type : BusinessTypes,
     declared_activity : {"Road freight transport"}]

----------------------------------------------------------------------------
(* RiskAnalyzer *)

VARIABLES
    high_risk_threshold,      \* RiskAnalyzer.high_risk_threshold
    medium_risk_threshold,    \* RiskAnalyzer.medium_risk_threshold
    pc,                       \* "idle", "called" or "returned"
    args,                     \* the arguments of that call
    result,                   \* what it returned
    calls,                    \* the collaborators a request has invoked, in order
    now,                      \* the clock datetime.now() reads
    frames,                   \* the locals of the calls in progress
    threads                   \* the request threads that share the analyzer

\* the state of the threads that call one analyzer side by side
shared == <<now, frames, threads>>

vars == <<high_risk_threshold, medium_risk_threshold, pc, args, result, calls,
          now, frames, threads>>

\* _get_expected_locations
_get_expected_locations(business_type) ==
    LET key == Lower(business_type)
    IN  CASE key = "logistics"     -> {"industrial", "commercial"}
          [] key = "manufacturing" -> {"industrial"}
          [] key = "technology"    -> {"commercial", "office"}
          [] key = "consulting"    -> {"commercial", "office"}
          [] key = "retail"        -> {"commercial"}
          [] key = "restaurant"    -> {"commercial"}
          [] OTHER                 -> {"commercial"}

\* risk_score 0.0 and the two empty lists each scorer starts from
NoFindings == [risk_score |-> FZero, risk_factors |-> <<>>, positive_factors |-> <<>>]

\* risk_score += amount; risk_factors.append(factor)
AddRisk(analysis, amount, factor) ==
    [analysis EXCEPT !.risk_score = FAdd(@, amount),
                     !.risk_factors = Append(@, factor)]

\* positive_factors.append(factor)
AddPositive(analysis, factor) ==
    [analysis EXCEPT !.positive_factors = Append(@, factor)]

\* AddressLocationRule with the commercial rule ahead of the expected-location
\* rule
AddressLocationRuleMismatchFirst(risk_analysis, location_type, business_type) ==
    IF location_type = "residential"
    THEN AddRisk(risk_analysis, Tenths[4],
                 "Business registered at residential address")
    ELSE IF location_type = "commercial"
            /\ business_type \notin {"technology", "consulting"}
    THEN AddRisk(risk_analysis, Tenths[1],
                 "Business type may not match commercial location")
    ELSE IF location_type \in _get_expected_locations(business_type)
    THEN AddPositive(risk_analysis,
                     "Address in appropriate " \o location_type \o " area")
    ELSE risk_analysis

\* the three rules on location_type
AddressLocationRule(risk_analysis, location_type, business_type) ==
    IF location_type = "residential"
    THEN AddRisk(risk_analysis, Tenths[4],
                 "Business registered at residential address")
    ELSE IF location_type \in _get_expected_locations(business_type)
    THEN AddPositive(risk_analysis,
                     "Address in appropriate " \o location_type \o " area")
    ELSE IF location_type = "commercial"
            /\ business_type \notin {"technology", "consulting"}
    THEN AddRisk(risk_analysis, Tenths[1],
                 "Business type may not match commercial location")
    ELSE risk_analysis

\* the rule on neighborhood_context
RemoteTechRule(risk_analysis, neighborhood, business_type) ==
    IF /\ neighborhood = "remote" \/ neighborhood = "rural"
       /\ business_type \in {"technology", "consulting"}
    THEN AddRisk(risk_analysis, Tenths[3],
                 "Tech/consulting business in remote location")
    ELSE risk_analysis

HasSupportingAmenity(amenities) ==
    \E i \in 1..Len(amenities) :
        amenities[i] \in {"bank", "office", "commercial", "industrial"}

\* the rule on nearby_amenities
AmenityRule(risk_analysis, amenities) ==
    IF HasSupportingAmenity(amenities)
    THEN AddPositive(risk_analysis, "Business-supporting amenities nearby")
    ELSE risk_analysis

\* AddressQuality with the bounds 0.2 and 0.4 inside the better rating
AddressQualityInclusive(risk_score) ==
    IF FLe(risk_score, Tenths[2]) THEN "EXCELLENT"
    ELSE IF FLe(risk_score, Tenths[4]) THEN "GOOD"
    ELSE "POOR"

AddressQuality(risk_score) ==
    IF FLt(risk_score, Tenths[2]) THEN "EXCELLENT"
    ELSE IF FLt(risk_score, Tenths[4]) THEN "GOOD"
    ELSE "POOR"

WithAddressQuality(risk_analysis) ==
    [address_quality |-> AddressQuality(risk_analysis.risk_score)] @@ risk_analysis

\* _analyze_address_risk without the return of the invalid-address branch
AddressRiskNoReturn(address_data, business_type) ==
    WithAddressQuality(
        AmenityRule(
            RemoteTechRule(
                AddressLocationRule(
                    IF address_data.is_valid THEN NoFindings
                    ELSE AddRisk(NoFindings, Tenths[9],
                                 "Address not found or invalid"),
                    address_data.location_type, business_type),
                address_data.neighborhood_context, business_type),
            address_data.nearby_amenities))

_analyze_address_risk(address_data, business_type) ==
    IF ~address_data.is_valid
    THEN [risk_score |-> Tenths[9],
          risk_factors |-> <<"Address not found or invalid">>,
          positive_factors |-> <<>>,
          address_quality |-> "INVALID"]
    ELSE WithAddressQuality(
             AmenityRule(
                 RemoteTechRule(
                     AddressLocationRule(NoFindings, address_data.location_type,
                                         business_type),
                     address_data.neighborhood_context, business_type),
                 address_data.nearby_amenities))

\* building presence and size
BuildingRule(risk_analysis, building_detection) ==
    IF building_detection.building_count = 0
    THEN AddRisk(risk_analysis, Tenths[5],
                 "No buildings detected at registered address")
    ELSE IF /\ building_detection.building_count > 0
            /\ building_detection.largest_building_area > 5000
    THEN AddPositive(risk_analysis, "Substantial building infrastructure present")
    ELSE risk_analysis

\* vehicle presence
VehicleRule(risk_analysis, vehicle_count, business_type) ==
    IF vehicle_count > 5
    THEN AddPositive(risk_analysis, "Multiple vehicles present - signs of activity")
    ELSE IF vehicle_count = 0 /\ business_type \in {"logistics", "transport"}
    THEN AddRisk(risk_analysis, Tenths[3],
                 "No vehicles visible for logistics/transport business")
    ELSE risk_analysis

\* AI contextual assessment
PositiveIndicatorRule(risk_analysis, positive_indicators) ==
    IF Len(positive_indicators) >= 3
    THEN AddPositive(risk_analysis,
                     "Strong infrastructure indicators from AI analysis")
    ELSE IF Len(positive_indicators) = 0
    THEN AddRisk(risk_analysis, Tenths[2], "Limited infrastructure indicators")
    ELSE risk_analysis

\* RiskIndicatorPenalty without the cap of 0.4
RiskIndicatorPenaltyUncapped(n) == FMul(FInt(n), Tenths[1])

\* the score added for n AI risk indicators
RiskIndicatorPenalty(n) == FMin(Tenths[4], FMul(FInt(n), Tenths[1]))

\* AI-identified risk indicators
RiskIndicatorRule(risk_analysis, ai_risk_indicators) ==
    IF Len(ai_risk_indicators) > 0
    THEN [risk_analysis EXCEPT
              !.risk_score = FAdd(@, RiskIndicatorPenalty(Len(ai_risk_indicators))),
              !.risk_factors = @ \o Take(ai_risk_indicators, 3)]
    ELSE risk_analysis

InfrastructureQuality(risk_score, positive_indicators) ==
    IF FLt(risk_score, Tenths[2]) /\ Len(positive_indicators) >= 2 THEN "EXCELLENT"
    ELSE IF FLt(risk_score, Tenths[4]) THEN "ADEQUATE"
    ELSE "POOR"

WithInfrastructureQuality(risk_analysis, positive_indicators) ==
    [infrastructure_quality |->
         InfrastructureQuality(risk_analysis.risk_score, positive_indicators)]
        @@ risk_analysis

_analyze_satellite_risk(satellite_data, business_type) ==
    IF ~satellite_data.analysis_completed
    THEN [risk_score |-> Tenths[3],
          risk_factors |-> <<"Satellite analysis unavailable">>,
          positive_factors |-> <<>>,
          infrastructure_quality |-> "UNKNOWN"]
    ELSE WithInfrastructureQuality(
             RiskIndicatorRule(
                 PositiveIndicatorRule(
                     VehicleRule(
                         BuildingRule(NoFindings,
                                      satellite_data.visual_features.building_detection),
                         satellite_data.visual_features.vehicle_detection.vehicle_count,
                         business_type),
                     satellite_data.infrastructure_assessment.positive_indicators),
                 satellite_data.risk_indicators),
             satellite_data.infrastructure_assessment.positive_indicators)

\* LowVehicleActivity with the comparison turned round
LowVehicleActivityInverted(vehicle_count) == vehicle_count >= 2

\* vehicle_count < 2 for a logistics/transport business
LowVehicleActivity(vehicle_count) == vehicle_count < 2

\* total_building_area < 1000 for a logistics/manufacturing business
SmallInfrastructure(total_building_area) == total_building_area < 1000

\* high-risk incompatibilities
IndustrialAtResidentialRule(compatibility, business_type, location_type) ==
    IF /\ Lower(business_type) \in {"logistics", "manufacturing"}
       /\ location_type = "residential"
    THEN AddRisk(compatibility, Tenths[6],
                 "Industrial " \o business_type \o " business at residential location")
    ELSE compatibility

\* medium-risk incompatibilities
OfficeAtIndustrialRule(compatibility, business_type, location_type) ==
    IF /\ Lower(business_type) \in {"technology", "consulting"}
       /\ location_type = "industrial"
    THEN AddRisk(compatibility, Tenths[2],
                 business_type \o " business in industrial area (unusual but possible)")
    ELSE compatibility

\* infrastructure size
InfrastructureSizeRule(compatibility, business_type, total_building_area) ==
    IF Lower(business_type) \in {"logistics", "manufacturing"}
    THEN IF SmallInfrastructure(total_building_area)
         THEN AddRisk(compatibility, Tenths[3],
                      "Small infrastructure for industrial business type")
         ELSE AddPositive(compatibility,
                          "Adequate infrastructure size for business type")
    ELSE compatibility

\* activity level
VehicleActivityRule(compatibility, business_type, vehicle_count) ==
    IF /\ Lower(business_type) \in {"logistics", "transport"}
       /\ LowVehicleActivity(vehicle_count)
    THEN AddRisk(compatibility, Tenths[2],
                 "Low vehicle activity for transport/logistics business")
    ELSE compatibility

\* CompatibilityRating without the QUESTIONABLE band
CompatibilityRatingThreeBands(risk_score) ==
    IF FLt(risk_score, Hundredths[15]) THEN "EXCELLENT"
    ELSE IF FLt(risk_score, Hundredths[55]) THEN "GOOD"
    ELSE "POOR"

CompatibilityRating(risk_score) ==
    IF FLt(risk_score, Hundredths[15]) THEN "EXCELLENT"
    ELSE IF FLt(risk_score, Hundredths[35]) THEN "GOOD"
    ELSE IF FLt(risk_score, Hundredths[55]) THEN "QUESTIONABLE"
    ELSE "POOR"

WithCompatibilityRating(compatibility) ==
    [compatibility_rating |-> CompatibilityRating(compatibility.risk_score)]
        @@ compatibility

\* _analyze_business_compatibility reading the type of business in the
\* declared activity
CompatibilityOfDeclaredActivity(address_data, satellite_data, business_type, declared_activity) ==
    WithCompatibilityRating(
        VehicleActivityRule(
            InfrastructureSizeRule(
                OfficeAtIndustrialRule(
                    IndustrialAtResidentialRule(NoFindings, declared_activity,
                                                address_data.location_type),
                    declared_activity, address_data.location_type),
                declared_activity,
                satellite_data.visual_features.building_detection.total_building_area),
            declared_activity,
            satellite_data.visual_features.vehicle_detection.vehicle_count))

_analyze_business_compatibility(address_data, satellite_data, business_type, declared_activity) ==
    WithCompatibilityRating(
        VehicleActivityRule(
            InfrastructureSizeRule(
                OfficeAtIndustrialRule(
                    IndustrialAtResidentialRule(NoFindings, business_type,
                                                address_data.location_type),
                    business_type, address_data.location_type),
                business_type,
                satellite_data.visual_features.building_detection.total_building_area),
            business_type,
            satellite_data.visual_features.vehicle_detection.vehicle_count))

\* ClampUpper without the clamp
ClampUpperMissing(overall_score) == overall_score

\* min(1.0, overall_score)
ClampUpper(overall_score) == FMin(Tenths[10], overall_score)

address_weight == Tenths[3]
satellite_weight == Tenths[4]
compatibility_weight == Tenths[3]

\* d.get(key, 0.5) on a scorer's result
GetOrHalf(d, key) == IF key \in DOMAIN d THEN d[key] ELSE Tenths[5]

\* the weighted average, before the confidence adjustment
WeightedScore(address_risk, satellite_risk, compatibility_risk) ==
    FAdd(FAdd(FMul(GetOrHalf(address_risk, "risk_score"), address_weight),
              FMul(GetOrHalf(satellite_risk, "risk_score"), satellite_weight)),
         FMul(GetOrHalf(compatibility_risk, "risk_score"), compatibility_weight))

\* LowConfidence reading the score in place of the confidence
LowConfidenceOfScore(satellite_risk) ==
    FLt(GetOrHalf(satellite_risk, "risk_score"), Tenths[3])

\* satellite_data_confidence < 0.3
LowConfidence(satellite_risk) ==
    FLt(GetOrHalf(satellite_risk, "confidence_score"), Tenths[3])

_calculate_overall_risk_score(address_risk, satellite_risk, compatibility_risk) ==
    IF LowConfidence(satellite_risk)
    THEN ClampUpper(FAdd(WeightedScore(address_risk, satellite_risk,
                                       compatibility_risk),
                         Tenths[1]))
    ELSE ClampUpper(WeightedScore(address_risk, satellite_risk, compatibility_risk))

\* round(100 * x), ties to even, on the exact binary value of x (x < 8)
Cents(x) ==
    LET n0 == (x[2] % B15) * 100
        n1 == (x[2] \div B15) * 100 + Hi15(n0)
        n2 == (x[1] % B15) * 100 + Hi15(n1)
        n3 == (x[1] \div B15) * 100 + Hi15(n2)
        whole == n3 \div Pow2[13]
        g     == n3 % Pow2[13]
        below == Lo15(n0) # 0 \/ Lo15(n1) # 0 \/ Lo15(n2) # 0
    IN  IF g > Pow2[12] \/ (g = Pow2[12] /\ (below \/ whole % 2 = 1))
        THEN whole + 1 ELSE whole

\* f"{score:.2f}"
Format2f(score) ==
    LET c == Cents(score)
    IN  ToString(c \div 100) \o "." \o ToString((c % 100) \div 10)
                             \o ToString(c % 10)

RECURSIVE Join(_, _)
\* sep.join(strings)
Join(strings, sep) ==
    IF Len(strings) = 0 THEN ""
    ELSE IF Len(strings) = 1 THEN strings[1]
    ELSE strings[1] \o sep \o Join(Tail(strings), sep)

\* str(list of str), for strings without quotes or backslashes
StrOfList(strings) ==
    IF Len(strings) = 0 THEN "[]"
    ELSE "['" \o Join(strings, "', '") \o "']"

\* the pictograph that opens each text is left out of the strings
_generate_recommendation_text(risk_level, score, risk_factors, positive_factors) ==
    IF risk_level = "HIGH"
    THEN LET listed == StrOfList(risk_factors)
         IN  "HIGH RISK (Score: " \o Format2f(score) \o "): "
             \o (IF ContainsLower(listed, "residential")
                 THEN "ALERT: Registered address is residential. " ELSE "")
             \o (IF ContainsLower(listed, "no buildings")
                 THEN "No commercial infrastructure visible. " ELSE "")
             \o "High probability of shell company. Block registration and forward for manual review."
    ELSE IF risk_level = "MEDIUM"
    THEN "MEDIUM RISK (Score: " \o Format2f(score) \o "): "
         \o "The company may be legitimate, but shows some risk indicators. "
         \o (IF Len(positive_factors) > 0
             THEN "Positive points: " \o Join(Take(positive_factors, 2), ", ") \o ". "
             ELSE "")
         \o "Additional document verification recommended."
    ELSE "LOW RISK (Score: " \o Format2f(score) \o "): "
         \o "Address validated. "
         \o (IF Len(positive_factors) > 0
             THEN "Adequate infrastructure identified: "
                  \o Join(Take(positive_factors, 2), ", ") \o ". "
             ELSE "")
         \o "Automatic approval recommended."

\* _calculate_confidence_level with the address term fixed at 0.8
ConfidenceLevelValidOnly(analysis_result) ==
    FDivInt(FAdd(FAdd(FAdd(FZero, Tenths[8]),
                      analysis_result.satellite_analysis.confidence_score),
                 IF analysis_result.satellite_analysis.analysis_completed
                 THEN Tenths[9] ELSE Tenths[4]),
            3)

\* sum(confidence_factors) / len(confidence_factors), summed left to right
_calculate_confidence_level(analysis_result) ==
    LET validity     == IF analysis_result.address_validation.is_valid
                        THEN Tenths[8] ELSE Tenths[3]
        satellite_confidence == analysis_result.satellite_analysis.confidence_score
        completeness == IF analysis_result.satellite_analysis.analysis_completed
                        THEN Tenths[9] ELSE Tenths[4]
    IN  FDivInt(FAdd(FAdd(FAdd(FZero, validity), satellite_confidence),
                     completeness), 3)

\* IsHighRisk with a strict comparison
IsHighRiskStrict(overall_score) == FGt(overall_score, high_risk_threshold)

\* overall_score >= self.high_risk_threshold
IsHighRisk(overall_score) == FGe(overall_score, high_risk_threshold)

\* overall_score >= self.medium_risk_threshold
IsMediumRisk(overall_score) == FGe(overall_score, medium_risk_threshold)

\* TopFactors without the slice
TopFactorsUncut(factors) == factors

\* all_risk_factors[:5], all_positive_factors[:5]
TopFactors(factors) == Take(factors, 5)

\* detailed_assessment.values(), in insertion order
AssessmentValues(detailed_assessment) ==
    <<detailed_assessment.address_risk,
      detailed_assessment.satellite_risk,
      detailed_assessment.compatibility_risk>>

_generate_final_assessment(overall_score, analysis_result) ==
    LET assessments == AssessmentValues(analysis_result.detailed_assessment)
        all_risk_factors ==
            assessments[1].risk_factors \o assessments[2].risk_factors
                \o assessments[3].risk_factors
        all_positive_factors ==
            assessments[1].positive_factors \o assessments[2].positive_factors
                \o assessments[3].positive_factors
        risk_level == IF IsHighRisk(overall_score) THEN "HIGH"
                      ELSE IF IsMediumRisk(overall_score) THEN "MEDIUM"
                      ELSE "LOW"
        recommendation == IF IsHighRisk(overall_score) THEN "BLOCK"
                          ELSE IF IsMediumRisk(overall_score) THEN "MANUAL_REVIEW"
                          ELSE "AUTO_APPROVE"
    IN  [overall_risk_score |-> overall_score,
         risk_level |-> risk_level,
         recommendation |-> recommendation,
         recommendation_text |->
             _generate_recommendation_text(risk_level, overall_score,
                                           all_risk_factors, all_positive_factors),
         risk_factors |-> TopFactors(all_risk_factors),
         positive_factors |-> TopFactors(all_positive_factors),
         confidence_level |-> _calculate_confidence_level(analysis_result)]

\* dict.update: the keys of the update replace or extend those of the dict
Update(d, u) ==
    u @@ d

\* StartResult with the time of the call in business_information as well
StartResultStamped(cnpj, address_data, satellite_data, business_type, declared_activity) ==
    [cnpj |-> cnpj,
     analysis_timestamp |-> now,
     address_validation |-> address_data,
     satellite_analysis |-> satellite_data,
     business_information |-> [type |-> business_type,
                               declared_activity |-> declared_activity,
                               received_at |-> now],
     risk_factors |-> <<>>,
     positive_factors |-> <<>>,
     overall_risk_score |-> FZero,
     risk_level |-> "UNKNOWN",
     recommendation |-> "MANUAL_REVIEW",
     detailed_assessment |-> <<>>,
     confidence_level |-> FZero]

\* analysis_result as analyze_comprehensive_risk first builds it;
\* analysis_timestamp is the reading of the clock, not its ISO text
StartResult(cnpj, address_data, satellite_data, business_type, declared_activity) ==
    [cnpj |-> cnpj,
     analysis_timestamp |-> now,
     address_validation |-> address_data,
     satellite_analysis |-> satellite_data,
     business_information |-> [type |-> business_type,
                               declared_activity |-> declared_activity],
     risk_factors |-> <<>>,
     positive_factors |-> <<>>,
     overall_risk_score |-> FZero,
     risk_level |-> "UNKNOWN",
     recommendation |-> "MANUAL_REVIEW",
     detailed_assessment |-> <<>>,
     confidence_level |-> FZero]

\* analysis_result as analyze_comprehensive_risk holds it when it calls
\* _generate_final_assessment
InitialResult(cnpj, address_data, satellite_data, business_type, declared_activity) ==
    [StartResult(cnpj, address_data, satellite_data, business_type,
                 declared_activity)
        EXCEPT !.detailed_assessment =
            [address_risk |-> _analyze_address_risk(address_data, business_type),
             satellite_risk |-> _analyze_satellite_risk(satellite_data, business_type),
             compatibility_risk |->
                 _analyze_business_compatibility(address_data, satellite_data,
                                                 business_type, declared_activity)]]

\* steps 4 and 5 of analyze_comprehensive_risk, on analysis_result as the
\* three scorers left it
AssessOverall(analysis_result) ==
    Update(analysis_result,
           _generate_final_assessment(
               _calculate_overall_risk_score(
                   analysis_result.detailed_assessment.address_risk,
                   analysis_result.detailed_assessment.satellite_risk,
                   analysis_result.detailed_assessment.compatibility_risk),
               analysis_result))

\* a business_type that is not a str: the batch route passes the JSON value of
\* the field on as it arrived, here the number 7. TLC compares a string only
\* with strings, so the number is written as a tagged string that no str of
\* the input domains equals
NotAStr == "<int 7>"

\* whether a value has the methods of str
IsStr(value) == value # NotAStr

\* str(e) of the AttributeError that business_type.lower() raises on an int
NoLowerError == "'int' object has no attribute 'lower'"

\* _analyze_address_risk raises: past the invalid-address return it calls
\* _get_expected_locations, which calls business_type.lower()
AddressRiskRaises(address_data, business_type) ==
    address_data.is_valid /\ ~IsStr(business_type)

\* _analyze_business_compatibility raises: its first statement calls
\* business_type.lower()
CompatibilityRaises(business_type) == ~IsStr(business_type)

\* the except branch of analyze_comprehensive_risk
ExceptResult(analysis_result, e) ==
    Update(analysis_result,
           [error |-> e, risk_level |-> "HIGH", recommendation |-> "MANUAL_REVIEW"])

\* analysis_result when _analyze_business_compatibility raises after the
\* first two scorers returned
TwoAssessed(cnpj, address_data, satellite_data, business_type, declared_activity) ==
    [StartResult(cnpj, address_data, satellite_data, business_type,
                 declared_activity)
        EXCEPT !.detailed_assessment =
            [address_risk |-> _analyze_address_risk(address_data, business_type),
             satellite_risk |-> _analyze_satellite_risk(satellite_data, business_type)]]

\* the value analyze_comprehensive_risk returns for a request
analyze_comprehensive_risk(cnpj, address_data, satellite_data, business_type, declared_activity) ==
    IF AddressRiskRaises(address_data, business_type)
    THEN ExceptResult(StartResult(cnpj, address_data, satellite_data,
                                  business_type, declared_activity),
                      NoLowerError)
    ELSE IF CompatibilityRaises(business_type)
    THEN ExceptResult(TwoAssessed(cnpj, address_data, satellite_data,
                                  business_type, declared_activity),
                      NoLowerError)
    ELSE AssessOverall(InitialResult(cnpj, address_data, satellite_data,
                                     business_type, declared_activity))

----------------------------------------------------------------------------
(* Config *)

\* values of HIGH_RISK_THRESHOLD and MEDIUM_RISK_THRESHOLD in the
\* environment: <<>> when unset, <<n, m>> for the decimal string n/m
EnvValues == {<<>>, <<0, 10>>, <<3, 10>>, <<4, 10>>, <<7, 10>>, <<15, 10>>}

\* float(os.getenv(name, default))
EnvFloat(value, default) ==
    IF value = <<>> THEN Dec(default[1], default[2]) ELSE Dec(value[1], value[2])

----------------------------------------------------------------------------
(* request threads *)

\* the threads of the web server that call the one risk_analyzer
Threads == {1, 2}

\* no call in progress, the clock at its origin
NoThreads ==
    /\ now = 0
    /\ frames = [f \in Threads |-> [args |-> <<>>, analysis_result |-> <<>>]]
    /\ threads = [t \in Threads |->
                      [pc |-> "idle", given |-> <<>>, called_at |-> 0,
                       result |-> <<>>]]

----------------------------------------------------------------------------
(* the analyzer serving requests, thresholds at their defaults *)

\* Config with HIGH_RISK_THRESHOLD and MEDIUM_RISK_THRESHOLD unset
Init ==
    /\ high_risk_threshold = EnvFloat(<<>>, <<7, 10>>)
    /\ medium_risk_threshold = EnvFloat(<<>>, <<4, 10>>)
    /\ pc = "idle"
    /\ args = <<>>
    /\ result = <<>>
    /\ calls = <<>>
    /\ NoThreads

\* a caller invokes analyze_comprehensive_risk
Request ==
    /\ pc = "idle"
    /\ args' \in Requests
    /\ pc' = "called"
    /\ UNCHANGED <<high_risk_threshold, medium_risk_threshold, result, calls, shared>>

AnalyzeComprehensiveRisk ==
    /\ pc = "called"
    /\ result' = analyze_comprehensive_risk(args.cnpj, args.address_data,
                                            args.satellite_data, args.business_type,
                                            args.declared_activity)
    /\ pc' = "returned"
    /\ UNCHANGED <<high_risk_threshold, medium_risk_threshold, args, calls, shared>>

\* the caller takes the result; the analyzer is ready for the next request
Return ==
    /\ pc = "returned"
    /\ pc' = "idle"
    /\ args' = <<>>
    /\ result' = <<>>
    /\ UNCHANGED <<high_risk_threshold, medium_risk_threshold, calls, shared>>

Next == Request \/ AnalyzeComprehensiveRisk \/ Return

Spec == Init /\ [][Next]_vars

----------------------------------------------------------------------------
(* requests of the batch route, whose fields are not checked to be strings *)

BatchRequests ==
    [cnpj : {"12345678000190"},
     address_data : {a \in AddressData : /\ a.neighborhood_context = "urban"
                                         /\ a.nearby_amenities = <<"school">>},
     satellite_data : {s \in SatelliteData :
                          /\ s.infrastructure_assessment.positive_indicators = <<>>
                          /\ s.risk_indicators = <<>>},
     business_type : {"logistics", "technology", NotAStr},
     declared_activity : {"Road freight transport"}]

\* batch_analyze hands one entry of the batch to process_kyc_request
BatchRequest ==
    /\ pc = "idle"
    /\ args' \in BatchRequests
    /\ pc' = "called"
    /\ UNCHANGED <<high_risk_threshold, medium_risk_threshold, result, calls, shared>>

NextBatch == BatchRequest \/ AnalyzeComprehensiveRisk \/ Return

SpecBatch == Init /\ [][NextBatch]_vars

\* the requests of two businesses, one neighbourhood and one level of
\* satellite confidence
TextRequests ==
    {r \in Requests : /\ r.business_type \in {"logistics", "Technology"}
                      /\ r.address_data.neighborhood_context = "urban"
                      /\ r.address_data.nearby_amenities = <<"school">>
                      /\ r.satellite_data.confidence_score \in {FZero, Tenths[5]}}

\* a caller invokes analyze_comprehensive_risk for one of them
TextRequest ==
    /\ pc = "idle"
    /\ args' \in TextRequests
    /\ pc' = "called"
    /\ UNCHANGED <<high_risk_threshold, medium_risk_threshold, result, calls, shared>>

NextText == TextRequest \/ AnalyzeComprehensiveRisk \/ Return

SpecText == Init /\ [][NextText]_vars

----------------------------------------------------------------------------
(* _calculate_overall_risk_score on score records of any origin *)

\* risk scores the three scorers can return (0.0 to 1.4) and values between
RiskScores ==
    {Dec(n, 100) : n \in {0, 5, 10, 15, 20, 30, 35, 40, 50, 60, 70, 90, 100,
                          110, 140}}

\* a scorer's record as _calculate_overall_risk_score reads it
ScoreRecords == [risk_score : RiskScores]

\* the same with the confidence_score the method looks for
ScoreRecordsWithConfidence ==
    [risk_score : RiskScores, confidence_score : {Tenths[2], Tenths[5]}]

FusionInputs ==
    [address_risk : ScoreRecords,
     satellite_risk : ScoreRecords \cup ScoreRecordsWithConfidence,
     compatibility_risk : ScoreRecords]

\* a caller hands three score records to _calculate_overall_risk_score
FusionCall ==
    /\ pc = "idle"
    /\ args' \in FusionInputs
    /\ pc' = "fusing"
    /\ UNCHANGED <<high_risk_threshold, medium_risk_threshold, result, calls, shared>>

CalculateOverallRiskScore ==
    /\ pc = "fusing"
    /\ result' = _calculate_overall_risk_score(args.address_risk,
                                                args.satellite_risk,
                                                args.compatibility_risk)
    /\ pc' = "fused"
    /\ UNCHANGED <<high_risk_threshold, medium_risk_threshold, args, calls, shared>>

FusionReturn ==
    /\ pc = "fused"
    /\ pc' = "idle"
    /\ args' = <<>>
    /\ result' = <<>>
    /\ UNCHANGED <<high_risk_threshold, medium_risk_threshold, calls, shared>>

NextFusion == FusionCall \/ CalculateOverallRiskScore \/ FusionReturn

SpecFusion == Init /\ [][NextFusion]_vars

----------------------------------------------------------------------------
(* the satellite and the compatibility scorer, each called on its own *)

SatelliteRiskInputs ==
    [satellite_data : SatelliteData, business_type : BusinessTypes]

CompatibilityInputs ==
    [address_data : {a \in AddressData : /\ a.neighborhood_context = "urban"
                                         /\ a.nearby_amenities = <<"school">>},
     satellite_data : {s \in SatelliteData :
                          /\ s.infrastructure_assessment.positive_indicators = <<>>
                          /\ s.risk_indicators = <<>>},
     business_type : BusinessTypes,
     declared_activity : {"Road freight transport"}]

\* a caller hands satellite data and a business type to _analyze_satellite_risk
SatelliteRiskCall ==
    /\ pc = "idle"
    /\ args' \in SatelliteRiskInputs
    /\ pc' = "satellite"
    /\ UNCHANGED <<high_risk_threshold, medium_risk_threshold, result, calls, shared>>

AnalyzeSatelliteRisk ==
    /\ pc = "satellite"
    /\ result' = _analyze_satellite_risk(args.satellite_data, args.business_type)
    /\ pc' = "satellite scored"
    /\ UNCHANGED <<high_risk_threshold, medium_risk_threshold, args, calls, shared>>

\* a caller hands its data to _analyze_business_compatibility
CompatibilityCall ==
    /\ pc = "idle"
    /\ args' \in CompatibilityInputs
    /\ pc' = "compatibility"
    /\ UNCHANGED <<high_risk_threshold, medium_risk_threshold, result, calls, shared>>

AnalyzeBusinessCompatibility ==
    /\ pc = "compatibility"
    /\ result' = _analyze_business_compatibility(args.address_data,
                                                  args.satellite_data,
                                                  args.business_type,
                                                  args.declared_activity)
    /\ pc' = "compatibility scored"
    /\ UNCHANGED <<high_risk_threshold, medium_risk_threshold, args, calls, shared>>

ScorerReturn ==
    /\ pc \in {"satellite scored", "compatibility scored"}
    /\ pc' = "idle"
    /\ args' = <<>>
    /\ result' = <<>>
    /\ UNCHANGED <<high_risk_threshold, medium_risk_threshold, calls, shared>>

NextScorers ==
    \/ SatelliteRiskCall
    \/ AnalyzeSatelliteRisk
    \/ CompatibilityCall
    \/ AnalyzeBusinessCompatibility
    \/ ScorerReturn

SpecScorers == Init /\ [][NextScorers]_vars

----------------------------------------------------------------------------
(* _generate_final_assessment under the thresholds the environment sets *)

\* overall scores handed to _generate_final_assessment
Scores ==
    {Dec(n, 100) : n \in {0, 20, 39, 40, 41, 69, 70, 71, 100}}
        \cup {FAdd(FAdd(FMul(Tenths[1], address_weight),
                        FMul(Tenths[7], satellite_weight)),
                   FMul(Tenths[3], compatibility_weight)),
              FAdd(FAdd(Tenths[1], Tenths[2]), Tenths[4])}

\* analysis results handed to _generate_final_assessment
AnalysisResults ==
    {InitialResult(r.cnpj, r.address_data, r.satellite_data, r.business_type,
                   r.declared_activity) :
        r \in [cnpj : {"12345678000190"},
               address_data : [is_valid : BOOLEAN,
                               location_type : {"residential"},
                               neighborhood_context : {"urban"},
                               nearby_amenities : {<<"school", "bank">>}],
               satellite_data :
                   [analysis_completed : {TRUE},
                    visual_features :
                        [building_detection :
                             {[building_count |-> 0, total_building_area |-> 0,
                               largest_building_area |-> 0]},
                         vehicle_detection : [vehicle_count : {0}]],
                    infrastructure_assessment :
                        [positive_indicators : {<<>>}],
                    risk_indicators : RiskIndicatorLists,
                    confidence_score : {Tenths[5]}],
               business_type : {"logistics"},
               declared_activity : {"Road freight transport"}]}

InitEnv ==
    /\ \E high \in EnvValues, medium \in EnvValues :
        /\ high_risk_threshold = EnvFloat(high, <<7, 10>>)
        /\ medium_risk_threshold = EnvFloat(medium, <<4, 10>>)
    /\ pc = "idle"
    /\ args = <<>>
    /\ result = <<>>
    /\ calls = <<>>
    /\ NoThreads

\* a caller invokes _generate_final_assessment
RequestFinalAssessment ==
    /\ pc = "idle"
    /\ args' \in [overall_score : Scores, analysis_result : AnalysisResults]
    /\ pc' = "called"
    /\ UNCHANGED <<high_risk_threshold, medium_risk_threshold, result, calls, shared>>

GenerateFinalAssessment ==
    /\ pc = "called"
    /\ result' = _generate_final_assessment(args.overall_score, args.analysis_result)
    /\ pc' = "returned"
    /\ UNCHANGED <<high_risk_threshold, medium_risk_threshold, args, calls, shared>>

NextEnv == RequestFinalAssessment \/ GenerateFinalAssessment \/ Return

SpecEnv == InitEnv /\ [][NextEnv]_vars

----------------------------------------------------------------------------
(* two request threads on the one analyzer, the clock running *)

MaxClock == 1

\* the requests the threads make
SharedRequests ==
    [cnpj : {"12345678000190", "98765432000110"},
     address_data : {[is_valid |-> TRUE, location_type |-> "residential",
                      neighborhood_context |-> "urban",
                      nearby_amenities |-> <<"school">>]},
     satellite_data :
         {[analysis_completed |-> TRUE,
           visual_features |->
               [building_detection |->
                    [building_count |-> 3, total_building_area |-> 8000,
                     largest_building_area |-> 6000],
                vehicle_detection |-> [vehicle_count |-> 6]],
           infrastructure_assessment |->
               [positive_indicators |-> <<PositiveIndicator(1)>>],
           risk_indicators |-> <<>>,
           confidence_score |-> Tenths[5]],
          [analysis_completed |-> TRUE,
           visual_features |->
               [building_detection |->
                    [building_count |-> 0, total_building_area |-> 0,
                     largest_building_area |-> 0],
                vehicle_detection |-> [vehicle_count |-> 0]],
           infrastructure_assessment |-> [positive_indicators |-> <<>>],
           risk_indicators |-> RepeatedRiskIndicators,
           confidence_score |-> Tenths[2]]},
     business_type : {"logistics", "technology"},
     declared_activity : {"Road freight transport", "Logistics"}]

\* all calls keep their locals in one frame
FrameShared(t) == 1

\* the frame that holds the parameters and locals of the call of thread t:
\* its own
Frame(t) == t

\* analysis_result['detailed_assessment'][key] = risk
SetAssessment(analysis_result, key, risk) ==
    [analysis_result EXCEPT
         !.detailed_assessment = [k \in {key} |-> risk] @@ @]

\* thread t calls analyze_comprehensive_risk, which builds analysis_result
Call(t) ==
    /\ threads[t].pc = "idle"
    /\ \E r \in SharedRequests :
        /\ frames' = [frames EXCEPT ![Frame(t)] =
               [args |-> r,
                analysis_result |->
                    StartResult(r.cnpj, r.address_data, r.satellite_data,
                                r.business_type, r.declared_activity)]]
        /\ threads' = [threads EXCEPT ![t] =
               [pc |-> "address", given |-> r, called_at |-> now,
                result |-> <<>>]]
    /\ UNCHANGED <<high_risk_threshold, medium_risk_threshold, pc, args, result, calls,
                   now>>

\* 1. address validation analysis
ScoreAddress(t) ==
    /\ threads[t].pc = "address"
    /\ frames' = [frames EXCEPT ![Frame(t)].analysis_result =
           SetAssessment(@, "address_risk",
               _analyze_address_risk(frames[Frame(t)].args.address_data,
                                     frames[Frame(t)].args.business_type))]
    /\ threads' = [threads EXCEPT ![t].pc = "satellite"]
    /\ UNCHANGED <<high_risk_threshold, medium_risk_threshold, pc, args, result, calls,
                   now>>

\* 2. satellite imagery analysis
ScoreSatellite(t) ==
    /\ threads[t].pc = "satellite"
    /\ frames' = [frames EXCEPT ![Frame(t)].analysis_result =
           SetAssessment(@, "satellite_risk",
               _analyze_satellite_risk(frames[Frame(t)].args.satellite_data,
                                       frames[Frame(t)].args.business_type))]
    /\ threads' = [threads EXCEPT ![t].pc = "compatibility"]
    /\ UNCHANGED <<high_risk_threshold, medium_risk_threshold, pc, args, result, calls,
                   now>>

\* 3. business compatibility analysis
ScoreCompatibility(t) ==
    /\ threads[t].pc = "compatibility"
    /\ frames' = [frames EXCEPT ![Frame(t)].analysis_result =
           SetAssessment(@, "compatibility_risk",
               _analyze_business_compatibility(
                   frames[Frame(t)].args.address_data,
                   frames[Frame(t)].args.satellite_data,
                   frames[Frame(t)].args.business_type,
                   frames[Frame(t)].args.declared_activity))]
    /\ threads' = [threads EXCEPT ![t].pc = "assess"]
    /\ UNCHANGED <<high_risk_threshold, medium_risk_threshold, pc, args, result, calls,
                   now>>

\* 4. and 5. overall score and final assessment
Assess(t) ==
    /\ threads[t].pc = "assess"
    /\ frames' = [frames EXCEPT ![Frame(t)].analysis_result = AssessOverall(@)]
    /\ threads' = [threads EXCEPT ![t].pc = "return"]
    /\ UNCHANGED <<high_risk_threshold, medium_risk_threshold, pc, args, result, calls,
                   now>>

\* return analysis_result
ReturnResult(t) ==
    /\ threads[t].pc = "return"
    /\ threads' = [threads EXCEPT ![t].pc = "done",
                                  ![t].result = frames[Frame(t)].analysis_result]
    /\ UNCHANGED <<high_risk_threshold, medium_risk_threshold, pc, args, result, calls,
                   now, frames>>

\* the thread has sent its response and takes the next request
Collect(t) ==
    /\ threads[t].pc = "done"
    /\ threads' = [threads EXCEPT ![t] =
           [pc |-> "idle", given |-> <<>>, called_at |-> 0, result |-> <<>>]]
    /\ UNCHANGED <<high_risk_threshold, medium_risk_threshold, pc, args, result, calls,
                   now, frames>>

\* time passes
Tick ==
    /\ now < MaxClock
    /\ now' = now + 1
    /\ UNCHANGED <<high_risk_threshold, medium_risk_threshold, pc, args, result, calls,
                   frames, threads>>

NextShared ==
    \/ Tick
    \/ \E t \in Threads :
           \/ Call(t)
           \/ ScoreAddress(t)
           \/ ScoreSatellite(t)
           \/ ScoreCompatibility(t)
           \/ Assess(t)
           \/ ReturnResult(t)
           \/ Collect(t)

SpecShared == Init /\ [][NextShared]_vars

----------------------------------------------------------------------------
(* SatelliteAnalyzer._computer_vision_analysis *)

\* a contour cv2.findContours reports on the edge map, as _detect_buildings
\* measures it: contourArea, the vertices of approxPolyDP, arcLength (whole
\* pixels here)
Contour(area, vertices) == [area |-> area, vertices |-> vertices, perimeter |-> 200]

BuildingContours ==
    {Contour(500, 4), Contour(1000, 4), Contour(2400, 3), Contour(2400, 4),
     Contour(6000, 6)}

\* eleven contours that are all accepted, the largest found last
ElevenRising == [i \in 1..11 |-> Contour(1000 + 100 * i, 4)]

\* the same contours found in the opposite order
ElevenFalling == [i \in 1..11 |-> ElevenRising[12 - i]]

BuildingContourLists ==
    {<<>>} \cup {<<c>> : c \in BuildingContours}
        \cup {<<c, d>> : c \in BuildingContours, d \in BuildingContours}
        \cup {ElevenRising, ElevenFalling}

\* a contour of the bright mask, as _detect_vehicles measures it: contourArea
\* and boundingRect
BrightContours ==
    {[area |-> 200, x |-> 10, y |-> 20, w |-> 12, h |-> 6],
     [area |-> 200, x |-> 40, y |-> 20, w |-> 30, h |-> 6],
     [area |-> 800, x |-> 70, y |-> 90, w |-> 40, h |-> 20]}

BrightContourLists ==
    {<<>>} \cup {<<c>> : c \in BrightContours}
        \cup {<<c, d>> : c \in BrightContours, d \in BrightContours}

\* what OpenCV finds in a decoded image: its contours, the Hough lines, the
\* share of edge pixels and the colour shares (whole per cent)
Scenes ==
    [building_contours : BuildingContourLists,
     bright_contours : BrightContourLists,
     detected_lines : {0, 7},
     edge_percentage : {3},
     vegetation_percentage : {0, 60},
     water_percentage : {0, 50},
     average_brightness : {120}]

\* image bytes, by what cv2.imdecode does with them: it raises (an empty
\* buffer), returns None (bytes that are no image) or returns the image
ImageData ==
    [decoding : {"raises", "none"}]
        \cup {[decoding |-> "image", scene |-> sc] : sc \in Scenes}

\* area > 1000 and len(approx) >= 4
AcceptedBuilding(contour) == contour.area > 1000 /\ contour.vertices >= 4

RECURSIVE SumOfAreas(_)
\* sum(b['area'] for b in buildings)
SumOfAreas(buildings) ==
    IF Len(buildings) = 0 THEN 0
    ELSE buildings[1].area + SumOfAreas(Tail(buildings))

RECURSIVE MaxOfAreas(_)
\* max([b['area'] for b in buildings], default=0)
MaxOfAreas(buildings) ==
    IF Len(buildings) = 0 THEN 0
    ELSE IF buildings[1].area > MaxOfAreas(Tail(buildings))
    THEN buildings[1].area
    ELSE MaxOfAreas(Tail(buildings))

\* buildings[:10]
BuildingsReported(buildings) == Take(buildings, 10)

\* the report of _detect_buildings on the accepted buildings
BuildingReport(buildings) ==
    [building_count |-> Len(buildings),
     total_building_area |-> SumOfAreas(buildings),
     largest_building_area |-> MaxOfAreas(buildings),
     buildings |-> BuildingsReported(buildings)]

_detect_buildings(contours) ==
    BuildingReport(SelectSeq(contours, AcceptedBuilding))

\* 50 < area < 500 and 0.5 < w / h < 3.0
AcceptedVehicle(contour) ==
    /\ 50 < contour.area /\ contour.area < 500
    /\ contour.h < 2 * contour.w /\ contour.w < 3 * contour.h

\* the entry of the vehicles list; aspect_ratio is w / h, kept as the pair
VehicleOf(contour) ==
    [area |-> contour.area,
     aspect_ratio |-> <<contour.w, contour.h>>,
     position |-> <<contour.x, contour.y>>]

_detect_vehicles(contours) ==
    [vehicle_count |-> Len(SelectSeq(contours, AcceptedVehicle)),
     vehicles |-> [i \in 1..Len(SelectSeq(contours, AcceptedVehicle)) |->
                       VehicleOf(SelectSeq(contours, AcceptedVehicle)[i])]]

_analyze_infrastructure(scene) ==
    [detected_lines |-> scene.detected_lines,
     infrastructure_density |-> scene.edge_percentage]

_analyze_area_characteristics(scene) ==
    [vegetation_percentage |-> scene.vegetation_percentage,
     water_percentage |-> scene.water_percentage,
     average_brightness |-> scene.average_brightness,
     developed_area_percentage |->
         IF 100 - scene.vegetation_percentage - scene.water_percentage > 0
         THEN 100 - scene.vegetation_percentage - scene.water_percentage
         ELSE 0]

\* analysis as _computer_vision_analysis first builds it
NoFeatures ==
    [building_detection |-> <<>>,
     vehicle_detection |-> <<>>,
     infrastructure_features |-> <<>>,
     area_characteristics |-> <<>>]

\* str(e) of the cv2.error raised on an empty buffer
DecodeError == "OpenCV: (-215:Assertion failed) !buf.empty() in function 'imdecode_'"

_computer_vision_analysis(image_data) ==
    IF image_data.decoding = "raises"
    THEN Update(NoFeatures, [error |-> DecodeError])
    ELSE IF image_data.decoding = "none"
    THEN NoFeatures
    ELSE [building_detection |-> _detect_buildings(image_data.scene.building_contours),
          vehicle_detection |-> _detect_vehicles(image_data.scene.bright_contours),
          infrastructure_features |-> _analyze_infrastructure(image_data.scene),
          area_characteristics |-> _analyze_area_characteristics(image_data.scene)]

\* a caller hands image bytes to _computer_vision_analysis
VisionCall ==
    /\ pc = "idle"
    /\ args' \in [image_data : ImageData]
    /\ pc' = "vision"
    /\ UNCHANGED <<high_risk_threshold, medium_risk_threshold, result, calls, shared>>

ComputerVisionAnalysis ==
    /\ pc = "vision"
    /\ result' = _computer_vision_analysis(args.image_data)
    /\ pc' = "vision done"
    /\ UNCHANGED <<high_risk_threshold, medium_risk_threshold, args, calls, shared>>

VisionReturn ==
    /\ pc = "vision done"
    /\ pc' = "idle"
    /\ args' = <<>>
    /\ result' = <<>>
    /\ UNCHANGED <<high_risk_threshold, medium_risk_threshold, calls, shared>>

NextVision == VisionCall \/ ComputerVisionAnalysis \/ VisionReturn

SpecVision == Init /\ [][NextVision]_vars

----------------------------------------------------------------------------
(* SatelliteAnalyzer.analyze_location *)

\* Python's None where image bytes are expected
NoImageData == [decoding |-> "None"]

\* b'': the buffer cv2.imdecode raises on
EmptyBytes == [decoding |-> "raises"]

\* bool(image_data): None and b'' are falsy
Truthy(image_data) == image_data \notin {NoImageData, EmptyBytes}

\* the image bytes a provider may send
Contents ==
    {EmptyBytes, [decoding |-> "none"]}
        \cup {[decoding |-> "image", scene |-> sc] :
                 sc \in {sc \in Scenes : /\ sc.building_contours = <<>>
                                         /\ sc.bright_contours = <<>>
                                         /\ sc.detected_lines = 7
                                         /\ sc.vegetation_percentage = 0
                                         /\ sc.water_percentage = 0}}

\* what requests.get does: it raises, or it returns a response
Responses ==
    {[outcome |-> "raises"]}
        \cup [outcome : {"response"}, status_code : {200, 403},
              content_type : {"image/png", "application/json"}, content : Contents]

\* the lines of the text the vision model answers with, or its failure
AiOutcomes ==
    {[outcome |-> "raises"]}
        \cup [outcome : {"response"},
              lines : {<<"">>,
                       <<"Large WAREHOUSE with loading docks", "Office block",
                         "Vehicles parked">>,
                       <<"Residential houses, no commercial activity">>}]

_download_from_google(response) ==
    IF /\ response.outcome = "response"
       /\ response.status_code = 200
       /\ Contains(response.content_type, "image")
    THEN response.content
    ELSE NoImageData

_download_from_mapbox(response) ==
    IF response.outcome = "response" /\ response.status_code = 200
    THEN response.content
    ELSE NoImageData

\* _download_satellite_image with Mapbox asked before Google
DownloadMapboxFirst(world) ==
    IF world.mapbox_token /\ Truthy(_download_from_mapbox(world.mapbox))
    THEN [image_data |-> _download_from_mapbox(world.mapbox),
          tried |-> <<"_download_from_mapbox">>]
    ELSE IF world.google_api_key /\ Truthy(_download_from_google(world.google))
    THEN [image_data |-> _download_from_google(world.google),
          tried |-> IF world.mapbox_token
                    THEN <<"_download_from_mapbox", "_download_from_google">>
                    ELSE <<"_download_from_google">>]
    ELSE [image_data |-> NoImageData,
          tried |-> (IF world.mapbox_token THEN <<"_download_from_mapbox">> ELSE <<>>)
                        \o (IF world.google_api_key
                            THEN <<"_download_from_google">> ELSE <<>>)]

\* the bytes _download_satellite_image returns and the providers it asked, in
\* order: world holds the analyzer's keys and what each provider would send
_download_satellite_image(world) ==
    IF world.google_api_key /\ Truthy(_download_from_google(world.google))
    THEN [image_data |-> _download_from_google(world.google),
          tried |-> <<"_download_from_google">>]
    ELSE IF world.mapbox_token /\ Truthy(_download_from_mapbox(world.mapbox))
    THEN [image_data |-> _download_from_mapbox(world.mapbox),
          tried |-> IF world.google_api_key
                    THEN <<"_download_from_google", "_download_from_mapbox">>
                    ELSE <<"_download_from_mapbox">>]
    ELSE [image_data |-> NoImageData,
          tried |-> (IF world.google_api_key THEN <<"_download_from_google">> ELSE <<>>)
                        \o (IF world.mapbox_token
                            THEN <<"_download_from_mapbox">> ELSE <<>>)]

risk_keywords == {"empty", "residential", "inappropriate", "facade", "shell", "suspicious"}

positive_keywords == {"warehouse", "office", "industrial", "commercial", "loading", "vehicles"}

\* any(keyword in line for keyword in risk_keywords), line in lower case
IsRiskLine(line) == \E keyword \in risk_keywords : Contains(line, keyword)

IsPositiveLine(line) == \E keyword \in positive_keywords : Contains(line, keyword)

\* any('vehicle' in indicator for indicator in positive_indicators)
MentionsVehicle(line) == Contains(line, "vehicle")

\* min(1.0, len(positive_indicators) * 0.2 + 0.5), times 0.7 when there is
\* a risk indicator
AiConfidence(positive_indicators, risk_indicators) ==
    IF Len(risk_indicators) > 0
    THEN FMul(FMin(Tenths[10],
                   FAdd(FMul(FInt(Len(positive_indicators)), Tenths[2]), Tenths[5])),
              Tenths[7])
    ELSE FMin(Tenths[10],
              FAdd(FMul(FInt(Len(positive_indicators)), Tenths[2]), Tenths[5]))

\* the dict built from the two lists of lines
AiReport(lines, positive_indicators, risk_indicators) ==
    [infrastructure_assessment |->
         [positive_indicators |-> positive_indicators,
          infrastructure_quality |->
              IF Len(positive_indicators) > 2 THEN "good" ELSE "limited"],
     activity_indicators |->
         [signs_of_activity |-> Len(positive_indicators) > 1,
          vehicle_presence |-> SelectSeq(positive_indicators, MentionsVehicle) # <<>>],
     risk_indicators |-> risk_indicators,
     confidence_score |-> AiConfidence(positive_indicators, risk_indicators),
     full_analysis |-> lines]

\* response_text is held as its lines; the lines here carry no blanks at
\* their ends, so strip() leaves them alone
_parse_ai_response(lines) ==
    AiReport(lines,
             SelectSeq([i \in 1..Len(lines) |-> Lower(lines[i])], IsPositiveLine),
             SelectSeq([i \in 1..Len(lines) |-> Lower(lines[i])], IsRiskLine))

\* str(e) of the error the OpenAI client raises
AiError == "Incorrect API key provided"

_ai_contextual_analysis(ai) ==
    IF ai.outcome = "raises"
    THEN [infrastructure_assessment |-> [error |-> AiError],
          activity_indicators |-> <<>>,
          risk_indicators |-> <<>>,
          confidence_score |-> FInt(0)]
    ELSE _parse_ai_response(ai.lines)

\* the result dict analyze_location starts from; "None" is Python's None
LocationResult(business_type) ==
    [business_type |-> business_type,
     image_downloaded |-> FALSE,
     analysis_completed |-> FALSE,
     visual_features |-> <<>>,
     infrastructure_assessment |-> <<>>,
     activity_indicators |-> <<>>,
     risk_indicators |-> <<>>,
     confidence_score |-> FInt(0),
     error |-> "None"]

\* the keys of the analyzer, what the providers and the vision model would
\* answer, and the business type of the call
LocationInputs ==
    [business_type : {"Logistics"},
     google_api_key : BOOLEAN, mapbox_token : BOOLEAN,
     google : Responses, mapbox : Responses, ai : AiOutcomes]

\* a caller invokes analyze_location; the result dict is built
LocationCall ==
    /\ pc = "idle"
    /\ args' \in LocationInputs
    /\ result' = LocationResult(args'.business_type)
    /\ calls' = <<>>
    /\ pc' = "download"
    /\ UNCHANGED <<high_risk_threshold, medium_risk_threshold, shared>>

\* image_data = self._download_satellite_image(lat, lon), and the return
\* when there is no image
DownloadSatelliteImage ==
    /\ pc = "download"
    /\ calls' = calls \o _download_satellite_image(args).tried
    /\ IF ~Truthy(_download_satellite_image(args).image_data)
       THEN /\ result' = [result EXCEPT !.error = "Failed to download satellite image"]
            /\ pc' = "location done"
       ELSE /\ result' = [result EXCEPT !.image_downloaded = TRUE]
            /\ pc' = "cv"
    /\ UNCHANGED <<high_risk_threshold, medium_risk_threshold, args, shared>>

\* result['visual_features'] = self._computer_vision_analysis(image_data)
LocationVision ==
    /\ pc = "cv"
    /\ calls' = Append(calls, "_computer_vision_analysis")
    /\ result' = [result EXCEPT !.visual_features =
           _computer_vision_analysis(_download_satellite_image(args).image_data)]
    /\ pc' = "ai"
    /\ UNCHANGED <<high_risk_threshold, medium_risk_threshold, args, shared>>

\* result.update(self._ai_contextual_analysis(...)), then
\* result['analysis_completed'] = True
LocationAi ==
    /\ pc = "ai"
    /\ calls' = Append(calls, "_ai_contextual_analysis")
    /\ result' = [Update(result, _ai_contextual_analysis(args.ai))
                      EXCEPT !.analysis_completed = TRUE]
    /\ pc' = "location done"
    /\ UNCHANGED <<high_risk_threshold, medium_risk_threshold, args, shared>>

\* the caller has the result
LocationReturn ==
    /\ pc = "location done"
    /\ pc' = "idle"
    /\ args' = <<>>
    /\ result' = <<>>
    /\ calls' = <<>>
    /\ UNCHANGED <<high_risk_threshold, medium_risk_threshold, shared>>

\* every helper analyze_location calls catches Exception itself, so the
\* except branch of analyze_location has no statement that reaches it
NextLocation ==
    \/ LocationCall
    \/ DownloadSatelliteImage
    \/ LocationVision
    \/ LocationAi
    \/ LocationReturn

SpecLocation == Init /\ [][NextLocation]_vars

----------------------------------------------------------------------------
(* KYCGeointelligentAPI.process_kyc_request *)

\* d.get(key, default)
GetOr(d, key, default) == IF key \in DOMAIN d THEN d[key] ELSE default

\* what validate_address returns: an address it did not find or failed on,
\* with its error, or a geocoded address with its context
ValidatedAddresses ==
    {Update(a, [error |-> e]) :
         a \in {a \in AddressData : /\ ~a.is_valid
                                    /\ a.location_type = "residential"
                                    /\ a.neighborhood_context = "urban"
                                    /\ a.nearby_amenities = <<"school">>},
         e \in {"Address not found in OpenStreetMap",
                "Validation error: Non-successful status code 502"}}
        \cup {Update(a, [error |-> "None"]) :
                 a \in {a \in AddressData : /\ a.is_valid
                                            /\ a.neighborhood_context = "urban"
                                            /\ a.nearby_amenities = <<"school">>}}

\* what analyze_location returns
LocationAnalyses ==
    {s \in SatelliteData :
        /\ s.visual_features.vehicle_detection.vehicle_count \in {0, 6}
        /\ s.infrastructure_assessment.positive_indicators = <<>>
        /\ Len(s.risk_indicators) \in {0, 4}
        /\ s.confidence_score \in {FZero, Tenths[5]}}

\* the collaborator calls inside the try block, in the order of the source
Steps == <<"validate_address", "analyze_location", "analyze_comprehensive_risk">>

\* the call, if any, that raises an Exception past the handlers of the
\* collaborator itself
Faults == {"none"} \cup {Steps[i] : i \in DOMAIN Steps}

\* str(e) of such an exception
KycError == "maximum recursion depth exceeded"

\* the arguments of a request, what the collaborators answer to it and
\* which of them fails
KycInputs ==
    [cnpj : {"12345678000190"},
     address : {"Av. Paulista 1000, Sao Paulo"},
     business_type : {"Logistics", NotAStr},
     declared_activity : {"Road freight transport"},
     address_data : ValidatedAddresses,
     satellite_data : LocationAnalyses,
     fault : Faults]

\* the result dict process_kyc_request starts from; the request id, the
\* timestamp and the processing time are left out
KycResult(cnpj, address, business_type, declared_activity) ==
    [cnpj |-> cnpj,
     address_input |-> address,
     business_type |-> business_type,
     declared_activity |-> declared_activity,
     status |-> "processing"]

\* InvalidAddress that never takes the early return
InvalidAddressIgnored(address_data) == FALSE

\* not address_data['is_valid']
InvalidAddress(address_data) == ~address_data.is_valid

\* the update of the early return
InvalidAddressUpdate(address_data) ==
    [status |-> "completed",
     risk_level |-> "HIGH",
     recommendation |-> "BLOCK",
     recommendation_text |->
         "HIGH RISK: Invalid or not found address: "
             \o GetOr(address_data, "error", "Address not located"),
     address_validation |-> address_data]

\* the update of the except branch
KycExceptUpdate(e) ==
    [status |-> "error",
     error |-> e,
     risk_level |-> "HIGH",
     recommendation |-> "MANUAL_REVIEW",
     recommendation_text |->
         "ANALYSIS ERROR: " \o e \o ". Forward for manual review."]

\* step 4: the update that compiles the final result
CompiledUpdate(address_data, satellite_data, risk_analysis) ==
    [status |-> "completed",
     risk_level |-> GetOr(risk_analysis, "risk_level", "UNKNOWN"),
     overall_risk_score |-> GetOr(risk_analysis, "overall_risk_score", Tenths[5]),
     recommendation |-> GetOr(risk_analysis, "recommendation", "MANUAL_REVIEW"),
     recommendation_text |-> GetOr(risk_analysis, "recommendation_text", ""),
     confidence_level |-> GetOr(risk_analysis, "confidence_level", Tenths[5]),
     risk_factors |-> GetOr(risk_analysis, "risk_factors", <<>>),
     positive_factors |-> GetOr(risk_analysis, "positive_factors", <<>>),
     detailed_analysis |->
         [address_validation |-> address_data,
          satellite_analysis |-> satellite_data,
          risk_assessment |-> GetOr(risk_analysis, "detailed_assessment", <<>>)]]

\* a route invokes process_kyc_request; the result dict is built
KycCall ==
    /\ pc = "idle"
    /\ args' \in KycInputs
    /\ result' = KycResult(args'.cnpj, args'.address, args'.business_type,
                           args'.declared_activity)
    /\ calls' = <<>>
    /\ pc' = "step 1"
    /\ UNCHANGED <<high_risk_threshold, medium_risk_threshold, shared>>

\* step 1: address_validator.validate_address, and the early return on an
\* address that is not valid
ValidateAddress ==
    /\ pc = "step 1"
    /\ calls' = Append(calls, "validate_address")
    /\ IF args.fault = "validate_address"
       THEN /\ result' = Update(result, KycExceptUpdate(KycError))
            /\ pc' = "kyc done"
       ELSE IF InvalidAddress(args.address_data)
       THEN /\ result' = Update(result, InvalidAddressUpdate(args.address_data))
            /\ pc' = "kyc done"
       ELSE /\ result' = result
            /\ pc' = "step 2"
    /\ UNCHANGED <<high_risk_threshold, medium_risk_threshold, args, shared>>

\* step 2: satellite_analyzer.analyze_location
AnalyzeLocation ==
    /\ pc = "step 2"
    /\ calls' = Append(calls, "analyze_location")
    /\ IF args.fault = "analyze_location"
       THEN /\ result' = Update(result, KycExceptUpdate(KycError))
            /\ pc' = "kyc done"
       ELSE /\ result' = result
            /\ pc' = "step 3"
    /\ UNCHANGED <<high_risk_threshold, medium_risk_threshold, args, shared>>

\* steps 3 and 4: risk_analyzer.analyze_comprehensive_risk, and the final
\* result compiled from what it returns
AnalyzeRisk ==
    /\ pc = "step 3"
    /\ calls' = Append(calls, "analyze_comprehensive_risk")
    /\ IF args.fault = "analyze_comprehensive_risk"
       THEN result' = Update(result, KycExceptUpdate(KycError))
       ELSE result' =
                Update(result,
                       CompiledUpdate(args.address_data, args.satellite_data,
                                      analyze_comprehensive_risk(
                                          args.cnpj, args.address_data,
                                          args.satellite_data, args.business_type,
                                          args.declared_activity)))
    /\ pc' = "kyc done"
    /\ UNCHANGED <<high_risk_threshold, medium_risk_threshold, args, shared>>

\* return result
KycReturn ==
    /\ pc = "kyc done"
    /\ pc' = "idle"
    /\ args' = <<>>
    /\ result' = <<>>
    /\ calls' = <<>>
    /\ UNCHANGED <<high_risk_threshold, medium_risk_threshold, shared>>

\* Config.validate_config has no raise statement, so self.initialized is
\* True and the return of the uninitialised API is not taken
NextKyc ==
    \/ KycCall
    \/ ValidateAddress
    \/ AnalyzeLocation
    \/ AnalyzeRisk
    \/ KycReturn

SpecKyc == Init /\ [][NextKyc]_vars

----------------------------------------------------------------------------
(* properties *)

Returned == pc = "returned"

FOne == Tenths[10]

InUnitInterval(x) == FLe(FZero, x) /\ FLe(x, FOne)

DefaultThresholds ==
    high_risk_threshold = Tenths[7] /\ medium_risk_threshold = Tenths[4]

\* the weighted average of the three scores of the returned result
ResultWeightedScore ==
    WeightedScore(result.detailed_assessment.address_risk,
                  result.detailed_assessment.satellite_risk,
                  result.detailed_assessment.compatibility_risk)

\* C1: with everything else fixed, a satellite confidence_score of 0.2 in
\* place of 0.5 raises overall_risk_score by exactly 0.1 before the clamp.
C1_LowConfidencePenalty ==
    (Returned /\ args.satellite_data.confidence_score = Tenths[5]) =>
        LET low == analyze_comprehensive_risk(
                       args.cnpj, args.address_data,
                       [args.satellite_data EXCEPT !.confidence_score = Tenths[2]],
                       args.business_type, args.declared_activity)
        IN  /\ result.overall_risk_score = ClampUpper(ResultWeightedScore)
            /\ low.overall_risk_score
                   = ClampUpper(FAdd(ResultWeightedScore, Tenths[1]))

\* C2: the risk_score of each of the three scorers lies in [0,1].
C2_PartialScoresInUnitInterval ==
    Returned =>
        /\ InUnitInterval(result.detailed_assessment.address_risk.risk_score)
        /\ InUnitInterval(result.detailed_assessment.satellite_risk.risk_score)
        /\ InUnitInterval(result.detailed_assessment.compatibility_risk.risk_score)

\* C3: an address with is_valid = false is rated HIGH and blocked, whatever
\* the satellite result and the business type.
C3_InvalidAddressBlocked ==
    (Returned /\ ~args.address_data.is_valid) =>
        result.risk_level = "HIGH" /\ result.recommendation = "BLOCK"

\* scenario C: a technology company at a house
ScenarioC ==
    /\ Returned
    /\ args.business_type = "technology"
    /\ args.address_data.is_valid
    /\ args.address_data.location_type = "residential"
    /\ args.address_data.neighborhood_context = "urban"
    /\ args.satellite_data.analysis_completed
    /\ args.satellite_data.visual_features.building_detection.building_count = 1
    /\ args.satellite_data.visual_features.vehicle_detection.vehicle_count = 0
    /\ args.satellite_data.infrastructure_assessment.positive_indicators = <<>>
    /\ args.satellite_data.risk_indicators = <<>>

\* C4: in scenario C the address score is 0.4, the satellite score 0.2, the
\* compatibility score 0, and the overall score reaches the medium threshold,
\* so the recommendation is not AUTO_APPROVE.
C4_ScenarioCNotApproved ==
    ScenarioC =>
        /\ result.detailed_assessment.address_risk.risk_score = Tenths[4]
        /\ result.detailed_assessment.satellite_risk.risk_score = Tenths[2]
        /\ result.detailed_assessment.compatibility_risk.risk_score = FZero
        /\ FGe(result.overall_risk_score, medium_risk_threshold)
        /\ result.recommendation # "AUTO_APPROVE"

\* C5: a Technology company at a valid residential address is rated HIGH.
C5_TechnologyAtHouseHigh ==
    (/\ Returned
     /\ args.business_type = "Technology"
     /\ args.address_data.is_valid
     /\ args.address_data.location_type = "residential") =>
        result.risk_level = "HIGH"

\* scenario B: a clean logistics site
ScenarioB ==
    /\ Returned
    /\ args.business_type = "logistics"
    /\ args.address_data.is_valid
    /\ args.address_data.location_type = "industrial"
    /\ args.satellite_data.analysis_completed
    /\ args.satellite_data.visual_features.building_detection.building_count = 3
    /\ args.satellite_data.visual_features.building_detection.total_building_area = 8000
    /\ args.satellite_data.visual_features.vehicle_detection.vehicle_count = 6
    /\ Len(args.satellite_data.infrastructure_assessment.positive_indicators) = 4
    /\ args.satellite_data.risk_indicators = <<>>

\* C6: in scenario B all three partial scores are below 0.2, the overall
\* score is below 0.4, the level is LOW and the recommendation AUTO_APPROVE.
C6_ScenarioBApproved ==
    ScenarioB =>
        /\ FLt(result.detailed_assessment.address_risk.risk_score, Tenths[2])
        /\ FLt(result.detailed_assessment.satellite_risk.risk_score, Tenths[2])
        /\ FLt(result.detailed_assessment.compatibility_risk.risk_score, Tenths[2])
        /\ FLt(result.overall_risk_score, Tenths[4])
        /\ result.risk_level = "LOW"
        /\ result.recommendation = "AUTO_APPROVE"

C6_Witness == ScenarioB

\* C7: overall_risk_score of every result lies in [0,1].
C7_OverallInUnitInterval ==
    Returned => InUnitInterval(result.overall_risk_score)

\* a result whose weighted average exceeds 1
C7_Witness ==
    /\ Returned
    /\ FGt(ResultWeightedScore, FOne)
    /\ result.overall_risk_score = FOne

\* C8: a score at or above the high threshold is HIGH/BLOCK, otherwise one at
\* or above the medium threshold is MEDIUM/MANUAL_REVIEW, otherwise it is
\* LOW/AUTO_APPROVE; with the default thresholds 0.7 is HIGH and 0.4 MEDIUM.
C8_BandsInclusive ==
    Returned =>
        LET score == args.overall_score
            band  == IF ~FLt(score, high_risk_threshold) THEN 3
                     ELSE IF ~FLt(score, medium_risk_threshold) THEN 2
                     ELSE 1
        IN  /\ result.risk_level = <<"LOW", "MEDIUM", "HIGH">>[band]
            /\ result.recommendation
                   = <<"AUTO_APPROVE", "MANUAL_REVIEW", "BLOCK">>[band]
            /\ (DefaultThresholds /\ score = Dec(7, 10))
                   => result.risk_level = "HIGH"
            /\ (DefaultThresholds /\ score = Dec(4, 10))
                   => result.risk_level = "MEDIUM"

\* the default thresholds and a score of exactly 0.7
C8_Witness ==
    /\ Returned
    /\ DefaultThresholds
    /\ args.overall_score = Dec(7, 10)
    /\ result.risk_level = "HIGH"
    /\ result.recommendation = "BLOCK"

\* C9: the thresholds of a RiskAnalyzer satisfy
\* 0 <= medium_risk_threshold < high_risk_threshold <= 1.
C9_ThresholdsOrdered ==
    /\ FLe(FZero, medium_risk_threshold)
    /\ FLt(medium_risk_threshold, high_risk_threshold)
    /\ FLe(high_risk_threshold, FOne)

\* the factors of the three scorers, in the order address, satellite,
\* compatibility
AllFactors(kind) ==
    result.detailed_assessment.address_risk[kind]
        \o result.detailed_assessment.satellite_risk[kind]
        \o result.detailed_assessment.compatibility_risk[kind]

FirstFive(factors) ==
    [i \in 1..(IF Len(factors) < 5 THEN Len(factors) ELSE 5) |-> factors[i]]

\* C10: risk_factors and positive_factors have at most 5 entries, and each is
\* the first 5 entries of the concatenation of the address, satellite and
\* compatibility scorers' lists.
C10_FactorsTruncated ==
    Returned =>
        /\ Len(result.risk_factors) <= 5
        /\ Len(result.positive_factors) <= 5
        /\ result.risk_factors = FirstFive(AllFactors("risk_factors"))
        /\ result.positive_factors = FirstFive(AllFactors("positive_factors"))

\* more than 5 risk factors were collected
C10_Witness ==
    /\ Returned
    /\ Len(AllFactors("risk_factors")) > 5
    /\ Len(result.risk_factors) = 5

NoDuplicates(factors) ==
    \A i, j \in 1..Len(factors) : i # j => factors[i] # factors[j]

RECURSIVE Dedup(_)
\* the first occurrences of the entries of factors, in order
Dedup(factors) ==
    IF Len(factors) = 0 THEN <<>>
    ELSE LET front == Dedup(SubSeq(factors, 1, Len(factors) - 1))
             last  == factors[Len(factors)]
         IN  IF \E i \in 1..Len(front) : front[i] = last
             THEN front ELSE Append(front, last)

\* C11: risk_factors and positive_factors of every result hold no entry
\* twice: each is the first 5 of the deduplicated concatenation of the
\* scorers' lists, first occurrences kept in order.
C11_FactorsDeduplicated ==
    Returned =>
        /\ NoDuplicates(result.risk_factors)
        /\ NoDuplicates(result.positive_factors)
        /\ result.risk_factors = FirstFive(Dedup(AllFactors("risk_factors")))
        /\ result.positive_factors
               = FirstFive(Dedup(AllFactors("positive_factors")))

Done(t) == threads[t].pc = "done"

\* two requests with the same address data, satellite data, business type
\* and declared activity
SameInputs(r1, r2) ==
    /\ r1.address_data = r2.address_data
    /\ r1.satellite_data = r2.satellite_data
    /\ r1.business_type = r2.business_type
    /\ r1.declared_activity = r2.declared_activity

\* a result without the two fields that repeat the call: its time and cnpj
Assessment(res) ==
    [k \in DOMAIN res \ {"analysis_timestamp", "cnpj"} |-> res[k]]

\* C12 as stated: two calls with identical address data, satellite data,
\* business type and declared activity (and here the same cnpj as well)
\* return results identical in every field, whenever the calls are made.
C12_IdenticalResults ==
    \A t1, t2 \in Threads :
        (Done(t1) /\ Done(t2) /\ threads[t1].given = threads[t2].given)
            => threads[t1].result = threads[t2].result

\* C12, amended: two such calls return results identical in every field
\* except analysis_timestamp, which is the time of each call, and cnpj,
\* which repeats the argument of each call.
C12_IdenticalButCallFields ==
    \A t1, t2 \in Threads :
        (Done(t1) /\ Done(t2) /\ SameInputs(threads[t1].given, threads[t2].given))
            => /\ Assessment(threads[t1].result) = Assessment(threads[t2].result)
               /\ threads[t1].result.analysis_timestamp = threads[t1].called_at
               /\ threads[t1].result.cnpj = threads[t1].given.cnpj

\* two calls with the same inputs made at different times have returned
C12_Witness ==
    /\ Done(1) /\ Done(2)
    /\ threads[1].given = threads[2].given
    /\ threads[1].called_at # threads[2].called_at
    /\ threads[1].result.analysis_timestamp # threads[2].result.analysis_timestamp

\* what analyze_comprehensive_risk returns for request r when it runs alone
\* at time called_at
AloneResult(r, called_at) ==
    [analyze_comprehensive_risk(r.cnpj, r.address_data, r.satellite_data,
                                r.business_type, r.declared_activity)
        EXCEPT !.analysis_timestamp = called_at]

\* C14: whatever the interleaving of the calls on the shared analyzer, the
\* parameters of a call in progress are the data it was given, the result of
\* each call is the result of that request run alone, and the analyzer's
\* thresholds stay as constructed.
C14_CallsIsolated ==
    /\ DefaultThresholds
    /\ \A t \in Threads :
        /\ threads[t].pc \notin {"idle", "done"}
               => frames[Frame(t)].args = threads[t].given
        /\ Done(t) => threads[t].result
                          = AloneResult(threads[t].given, threads[t].called_at)

\* one call has returned while another, for a different business and site,
\* has computed its result and not yet returned
C14_Witness ==
    /\ Done(1)
    /\ threads[2].pc = "return"
    /\ threads[1].given.business_type # threads[2].given.business_type
    /\ threads[1].given.satellite_data # threads[2].given.satellite_data
    /\ threads[1].result.risk_level # frames[Frame(2)].analysis_result.risk_level

\* C13: no call takes the exception path of analyze_comprehensive_risk, and
\* every result holds the three entries of detailed_assessment
C13_NeverExceptionPath ==
    Returned =>
        /\ "error" \notin DOMAIN result
        /\ DOMAIN result.detailed_assessment =
               {"address_risk", "satellite_risk", "compatibility_risk"}

\* the record with its risk_score replaced
WithScore(risk, score) == [risk EXCEPT !.risk_score = score]

\* the overall score when one partial score of the call is replaced
Rescored(which, score) ==
    LET raised == [args EXCEPT ![which] = WithScore(args[which], score)]
    IN  _calculate_overall_risk_score(raised.address_risk, raised.satellite_risk,
                                      raised.compatibility_risk)

Partials == {"address_risk", "satellite_risk", "compatibility_risk"}

\* C15: raising one partial score, the other two and the confidence kept,
\* never lowers the overall score
C15_FusionMonotone ==
    pc = "fused" =>
        \A which \in Partials, score \in RiskScores :
            FGe(score, args[which].risk_score) => FGe(Rescored(which, score), result)

\* a call with low confidence whose overall score a satellite score of 0.3
\* raises and a satellite score of 1.4 raises to the clamp
C15_Witness ==
    /\ pc = "fused"
    /\ LowConfidence(args.satellite_risk)
    /\ args.satellite_risk.risk_score = Tenths[2]
    /\ FLt(result, Rescored("satellite_risk", Tenths[3]))
    /\ Rescored("satellite_risk", Dec(140, 100)) = FOne
    /\ FLt(result, FOne)

\* a float as three limbs of its numerator over 2^58
Limbs(x) == <<x[1], Hi15(x[2]), Lo15(x[2])>>

\* the numerator of 3 * mean minus the numerator of a + b + c, exactly, when
\* the leading limbs differ by at most 1 (otherwise a value beyond every
\* tolerance)
ThriceLessSum(mean, a, b, c) ==
    LET m == Limbs(mean)
        t == <<Limbs(a), Limbs(b), Limbs(c)>>
        d == [i \in 1..3 |-> 3 * m[i] - (t[1][i] + t[2][i] + t[3][i])]
        low == d[2] * B15 + d[3]
    IN  IF d[1] = 0 THEN low
        ELSE IF d[1] = 1 /\ low < 0 THEN B30 + low
        ELSE IF d[1] = -1 /\ low > 0 THEN low - B30
        ELSE B30

\* the mean to within 2^-50 (256 over 2^58): more than the two roundings of
\* the sum and the one of the division can add up to
IsMeanOf(mean, a, b, c) ==
    LET diff == ThriceLessSum(mean, a, b, c)
    IN  -256 <= diff /\ diff <= 256

\* C16: confidence_level is the mean of the address term, the satellite
\* confidence and the completeness term, and lies in [0, 1] when the
\* satellite confidence does
C16_ConfidenceIsMean ==
    Returned =>
        /\ IsMeanOf(result.confidence_level,
                    IF args.address_data.is_valid THEN Tenths[8] ELSE Tenths[3],
                    args.satellite_data.confidence_score,
                    IF args.satellite_data.analysis_completed
                    THEN Tenths[9] ELSE Tenths[4])
        /\ InUnitInterval(args.satellite_data.confidence_score)
               => InUnitInterval(result.confidence_level)

\* a result for an invalid address and a completed analysis of confidence 0.5
C16_Witness ==
    /\ Returned
    /\ ~args.address_data.is_valid
    /\ args.satellite_data.analysis_completed
    /\ args.satellite_data.confidence_score = Tenths[5]
    /\ IsMeanOf(result.confidence_level, Tenths[3], Tenths[5], Tenths[9])
    /\ ~IsMeanOf(result.confidence_level, Tenths[8], Tenths[5], Tenths[9])

\* what a result says of the risk: the three partial scores, the overall
\* score, the level, the recommendation, its text and the factor lists
Scoring(res) ==
    [address_score |-> res.detailed_assessment.address_risk.risk_score,
     satellite_score |-> res.detailed_assessment.satellite_risk.risk_score,
     compatibility_score |-> res.detailed_assessment.compatibility_risk.risk_score,
     overall_risk_score |-> res.overall_risk_score,
     risk_level |-> res.risk_level,
     recommendation |-> res.recommendation,
     recommendation_text |-> res.recommendation_text,
     risk_factors |-> res.risk_factors,
     positive_factors |-> res.positive_factors]

\* two requests that differ at most in cnpj and declared activity
SameButActivityAndCnpj(r1, r2) ==
    /\ r1.address_data = r2.address_data
    /\ r1.satellite_data = r2.satellite_data
    /\ r1.business_type = r2.business_type

\* C17: two calls that differ only in declared_activity or cnpj return the
\* same partial scores, overall score, level, recommendation, text and
\* factor lists
C17_ActivityAndCnpjNotScored ==
    \A t1, t2 \in Threads :
        (Done(t1) /\ Done(t2)
            /\ SameButActivityAndCnpj(threads[t1].given, threads[t2].given))
        => Scoring(threads[t1].result) = Scoring(threads[t2].result)

\* two finished calls for a logistics business that differ in cnpj and in
\* declared activity
C17_Witness ==
    /\ Done(1) /\ Done(2)
    /\ SameButActivityAndCnpj(threads[1].given, threads[2].given)
    /\ threads[1].given.business_type = "logistics"
    /\ threads[1].given.cnpj # threads[2].given.cnpj
    /\ threads[1].given.declared_activity = "Road freight transport"
    /\ threads[2].given.declared_activity = "Logistics"
    /\ threads[1].result.business_information # threads[2].result.business_information

\* C18: for an invalid address the address scorer returns 0.9 with the
\* invalid-address factor alone and no positive factor, whatever the other
\* fields of the address data
C18_InvalidAddressShortCircuits ==
    (Returned /\ ~args.address_data.is_valid) =>
        /\ result.detailed_assessment.address_risk.risk_score = Tenths[9]
        /\ result.detailed_assessment.address_risk.risk_factors
               = <<"Address not found or invalid">>
        /\ result.detailed_assessment.address_risk.positive_factors = <<>>

\* an invalid address whose other fields would fire the residential, the
\* remote and the amenity rule
C18_Witness ==
    /\ Returned
    /\ ~args.address_data.is_valid
    /\ args.address_data.location_type = "residential"
    /\ args.address_data.neighborhood_context = "remote"
    /\ HasSupportingAmenity(args.address_data.nearby_amenities)
    /\ args.business_type = "technology"
    /\ result.detailed_assessment.address_risk.risk_score = Tenths[9]

\* whether factor is an entry of the list
Listed(factors, factor) == \E i \in 1..Len(factors) : factors[i] = factor

CommercialMismatch == "Business type may not match commercial location"

\* a returned call for a valid address of location type commercial
ValidCommercial ==
    /\ Returned
    /\ args.address_data.is_valid
    /\ args.address_data.location_type = "commercial"

\* C19 as stated: every valid commercial address of a business type other
\* than technology and consulting gets 0.1 and the mismatch factor.
C19_CommercialMismatch ==
    (ValidCommercial /\ args.business_type \notin {"technology", "consulting"})
    => /\ Listed(result.detailed_assessment.address_risk.risk_factors,
                 CommercialMismatch)
       /\ FGe(result.detailed_assessment.address_risk.risk_score, Tenths[1])

\* C19, amended: a valid commercial address gets 0.1 and the mismatch factor
\* when commercial is not an expected location of the business type, and
\* otherwise the appropriate-area factor with no penalty for its location
C19_MismatchWhenNotExpected ==
    ValidCommercial =>
        IF "commercial" \in _get_expected_locations(args.business_type)
        THEN /\ ~Listed(result.detailed_assessment.address_risk.risk_factors,
                        CommercialMismatch)
             /\ Listed(result.detailed_assessment.address_risk.positive_factors,
                       "Address in appropriate commercial area")
             /\ result.detailed_assessment.address_risk.risk_score
                    \in {FZero, Tenths[3]}
        ELSE /\ result.detailed_assessment.address_risk.risk_factors
                    = <<CommercialMismatch>>
             /\ result.detailed_assessment.address_risk.risk_score = Tenths[1]

\* a manufacturing business at a valid commercial address
C19_Witness ==
    /\ ValidCommercial
    /\ args.business_type = "manufacturing"
    /\ result.detailed_assessment.address_risk.risk_score = Tenths[1]
    /\ Listed(result.detailed_assessment.address_risk.risk_factors,
              CommercialMismatch)

\* the rating the score alone gives
RatingOfScore(score) ==
    IF FLt(score, Tenths[2]) THEN "EXCELLENT"
    ELSE IF FLt(score, Tenths[4]) THEN "GOOD"
    ELSE "POOR"

\* C20 as stated: for every input, an invalid address included, the address
\* quality is EXCELLENT below 0.2, GOOD below 0.4 and POOR otherwise.
C20_QualityOfScoreAlone ==
    Returned =>
        result.detailed_assessment.address_risk.address_quality
            = RatingOfScore(result.detailed_assessment.address_risk.risk_score)

\* C20, amended: for a valid address the quality is the rating of the score;
\* for an invalid address it is INVALID
C20_QualityOfScoreWhenValid ==
    Returned =>
        result.detailed_assessment.address_risk.address_quality
            = IF args.address_data.is_valid
              THEN RatingOfScore(result.detailed_assessment.address_risk.risk_score)
              ELSE "INVALID"

\* a valid residential address: the score is 0.4, at the bound, and the
\* quality POOR
C20_Witness ==
    /\ Returned
    /\ args.address_data.is_valid
    /\ result.detailed_assessment.address_risk.risk_score = Tenths[4]
    /\ result.detailed_assessment.address_risk.address_quality = "POOR"

\* the numerator of x minus the numerator of y, exactly, when it is small
\* (otherwise a value beyond every tolerance)
NumeratorLess(x, y) ==
    LET d == [i \in 1..3 |-> Limbs(x)[i] - Limbs(y)[i]]
        low == d[2] * B15 + d[3]
    IN  IF d[1] = 0 THEN low
        ELSE IF d[1] = 1 /\ low < 0 THEN B30 + low
        ELSE IF d[1] = -1 /\ low > 0 THEN low - B30
        ELSE B30

\* equal to within 2^-50 (256 over 2^58), a few roundings
Near(x, y) == -256 <= NumeratorLess(x, y) /\ NumeratorLess(x, y) <= 256

\* what _analyze_satellite_risk returns for the call's satellite data with
\* the AI risk indicators taken out
WithoutRiskIndicators ==
    _analyze_satellite_risk([args.satellite_data EXCEPT !.risk_indicators = <<>>],
                            args.business_type)

\* _analyze_satellite_risk has returned for a completed analysis
CompletedScored == pc = "satellite scored" /\ args.satellite_data.analysis_completed

\* the relation of C21 between the record without the indicators and the
\* record returned
IndicatorsAdded(without, scored, ai_risk_indicators) ==
    /\ Near(scored.risk_score,
            FAdd(without.risk_score,
                 Dec(Min(40, 10 * Len(ai_risk_indicators)), 100)))
    /\ Len(ai_risk_indicators) = 0 => scored.risk_score = without.risk_score
    /\ scored.risk_factors
           = without.risk_factors
                 \o SubSeq(ai_risk_indicators, 1, Min(Len(ai_risk_indicators), 3))

\* C21: n >= 1 AI risk indicators add min(0.4, 0.1 * n) to the satellite
\* score and append the first min(n, 3) of them, in order, to the risk
\* factors; no indicator adds and appends nothing
C21_RiskIndicatorRule ==
    CompletedScored =>
        IndicatorsAdded(WithoutRiskIndicators, result,
                        args.satellite_data.risk_indicators)

\* five indicators: 0.4 is added, not 0.5, and three of them are appended
C21_Witness ==
    /\ CompletedScored
    /\ Len(args.satellite_data.risk_indicators) = 5
    /\ result.risk_score = FAdd(WithoutRiskIndicators.risk_score, Tenths[4])
    /\ Len(result.risk_factors) = Len(WithoutRiskIndicators.risk_factors) + 3

CompatibilityScored == pc = "compatibility scored"

\* the rating the four bands give a score
RatingOfCompatibilityScore(score) ==
    IF FLt(score, Dec(15, 100)) THEN "EXCELLENT"
    ELSE IF FLt(score, Dec(35, 100)) THEN "GOOD"
    ELSE IF FLt(score, Dec(55, 100)) THEN "QUESTIONABLE"
    ELSE "POOR"

\* hundredths a rule contributes when it fires
Contribution(fires, hundredths) == IF fires THEN hundredths ELSE 0

\* the sum, in hundredths, of the contributions of the four rules of C22
\* that fire for the call
ContributionsOfCall ==
    LET key == Lower(args.business_type)
        building_detection == args.satellite_data.visual_features.building_detection
        vehicle_detection == args.satellite_data.visual_features.vehicle_detection
    IN  Contribution(/\ key \in {"logistics", "manufacturing"}
                     /\ args.address_data.location_type = "residential", 60)
        + Contribution(/\ key \in {"technology", "consulting"}
                       /\ args.address_data.location_type = "industrial", 20)
        + Contribution(/\ key \in {"logistics", "manufacturing"}
                       /\ building_detection.total_building_area < 1000, 30)
        + Contribution(/\ key \in {"logistics", "transport"}
                       /\ vehicle_detection.vehicle_count < 2, 20)

\* the rating of a score given in hundredths
RatingOfHundredths(hundredths) ==
    IF hundredths < 15 THEN "EXCELLENT"
    ELSE IF hundredths < 35 THEN "GOOD"
    ELSE IF hundredths < 55 THEN "QUESTIONABLE"
    ELSE "POOR"

\* C22: the compatibility score is the sum of the contributions of the rules
\* that fire, and the rating is EXCELLENT below 0.15, GOOD below 0.35,
\* QUESTIONABLE below 0.55 and POOR otherwise
C22_CompatibilityIsSumOfRules ==
    CompatibilityScored =>
        /\ Near(result.risk_score, Dec(ContributionsOfCall, 100))
        /\ result.compatibility_rating = RatingOfHundredths(ContributionsOfCall)
        /\ result.compatibility_rating = RatingOfCompatibilityScore(result.risk_score)

\* a logistics business in a small building with one vehicle, not at a
\* residential address: 0.3 + 0.2, QUESTIONABLE
C22_Witness ==
    /\ CompatibilityScored
    /\ ContributionsOfCall = 50
    /\ args.address_data.location_type = "commercial"
    /\ args.satellite_data.visual_features.vehicle_detection.vehicle_count = 1
    /\ result.risk_score = Tenths[5]
    /\ result.compatibility_rating = "QUESTIONABLE"

\* text[:len(head)] == head
StartsWith(text, head) ==
    Len(head) <= Len(text) /\ SubSeq(text, 1, Len(head)) = head

\* text[-len(tail):] == tail
EndsWith(text, tail) ==
    Len(tail) <= Len(text)
        /\ SubSeq(text, Len(text) - Len(tail) + 1, Len(text)) = tail

\* the factor contains the lower-case word, whatever the case of its letters
Mentions(factor, word) ==
    \E i \in 1..(Len(factor) - Len(word) + 1) :
        /\ LowerChar(SubSeq(factor, i, i)) = SubSeq(word, 1, 1)
        /\ Lower(SubSeq(factor, i, i + Len(word) - 1)) = word

SomeMentions(factors, word) ==
    \E i \in 1..Len(factors) : Mentions(factors[i], word)

ResidentialAlert == "ALERT: Registered address is residential. "

NoInfrastructureClause == "No commercial infrastructure visible. "

BlockClause ==
    "High probability of shell company. Block registration and forward for manual review."

ReturnedHigh == Returned /\ result.risk_level = "HIGH"

\* C23: the text of a HIGH assessment opens with the score, has the
\* residential alert exactly when a risk factor contains 'residential', the
\* no-infrastructure clause exactly when one contains 'no buildings', ends
\* with the block clause and quotes no positive factor
C23_HighText ==
    ReturnedHigh =>
        /\ StartsWith(result.recommendation_text,
                      "HIGH RISK (Score: " \o Format2f(result.overall_risk_score)
                          \o "): ")
        /\ Contains(result.recommendation_text, ResidentialAlert)
               <=> SomeMentions(AllFactors("risk_factors"), "residential")
        /\ Contains(result.recommendation_text, NoInfrastructureClause)
               <=> SomeMentions(AllFactors("risk_factors"), "no buildings")
        /\ EndsWith(result.recommendation_text, BlockClause)
        /\ \A i \in 1..Len(AllFactors("positive_factors")) :
               ~Contains(result.recommendation_text,
                         AllFactors("positive_factors")[i])

\* a HIGH assessment with no building detected ('No buildings', with a
\* capital), no mention of a residential address and a positive factor
C23_Witness ==
    /\ ReturnedHigh
    /\ ~Contains(result.recommendation_text, ResidentialAlert)
    /\ Contains(result.recommendation_text, NoInfrastructureClause)
    /\ Len(result.positive_factors) > 0

VisionDone == pc = "vision done"

\* a measurement as the scorers read it: d.get(key, 0)
GetOrZero(d, key) == IF key \in DOMAIN d THEN d[key] ELSE 0

\* C24: on image bytes that cannot be decoded _computer_vision_analysis
\* returns a feature set whose measurements read zero and that carries an
\* error marker
C24_UndecodableMarked ==
    (VisionDone /\ args.image_data.decoding # "image") =>
        /\ "error" \in DOMAIN result
        /\ GetOrZero(result.building_detection, "building_count") = 0
        /\ GetOrZero(result.building_detection, "total_building_area") = 0
        /\ GetOrZero(result.building_detection, "largest_building_area") = 0
        /\ GetOrZero(result.vehicle_detection, "vehicle_count") = 0

RECURSIVE InsertByArea(_, _)
\* the list sorted by falling area, with one more building
InsertByArea(building, sorted) ==
    IF Len(sorted) = 0 THEN <<building>>
    ELSE IF building.area > sorted[1].area THEN <<building>> \o sorted
    ELSE <<sorted[1]>> \o InsertByArea(building, Tail(sorted))

RECURSIVE SortedByArea(_)
\* the buildings by falling area
SortedByArea(buildings) ==
    IF Len(buildings) = 0 THEN <<>>
    ELSE InsertByArea(buildings[1], SortedByArea(Tail(buildings)))

Entries(list) == {list[i] : i \in 1..Len(list)}

\* the buildings that pass the two tests, computed from the contours
AcceptedOfCall ==
    SelectSeq(args.image_data.scene.building_contours,
              LAMBDA c : c.area > 1000 /\ c.vertices >= 4)

\* C25: the buildings list holds the 10 accepted buildings of largest area
\* whatever the order of the contours, and count, total and largest are
\* the count, sum and maximum over all accepted buildings
C25_TenLargestBuildings ==
    (VisionDone /\ args.image_data.decoding = "image") =>
        /\ Entries(result.building_detection.buildings)
               = Entries(SubSeq(SortedByArea(AcceptedOfCall), 1,
                                Min(10, Len(AcceptedOfCall))))
        /\ result.building_detection.building_count = Len(AcceptedOfCall)
        /\ result.building_detection.total_building_area
               = SumOfAreas(AcceptedOfCall)
        /\ \A i \in 1..Len(AcceptedOfCall) :
               AcceptedOfCall[i].area
                   <= result.building_detection.largest_building_area
        /\ result.building_detection.largest_building_area
               \in {0} \cup {AcceptedOfCall[i].area : i \in 1..Len(AcceptedOfCall)}

\* C26: in every result, those of the exception path included, risk_level
\* and recommendation are HIGH with BLOCK, MEDIUM with MANUAL_REVIEW or LOW
\* with AUTO_APPROVE, and risk_level is not UNKNOWN
C26_LevelAndRecommendationPaired ==
    Returned =>
        <<result.risk_level, result.recommendation>>
            \in {<<"HIGH", "BLOCK">>, <<"MEDIUM", "MANUAL_REVIEW">>,
                 <<"LOW", "AUTO_APPROVE">>}

\* C27: when the HIGH text has the residential alert, an entry of the
\* returned risk_factors contains 'residential'; every positive factor that
\* a MEDIUM or LOW text quotes is an entry of the returned positive_factors
C27_TextMatchesReturnedFactors ==
    Returned =>
        /\ (result.risk_level = "HIGH"
                /\ Contains(result.recommendation_text, ResidentialAlert))
               => SomeMentions(result.risk_factors, "residential")
        /\ result.risk_level \in {"MEDIUM", "LOW"}
               => \A i \in 1..Len(AllFactors("positive_factors")) :
                      Contains(result.recommendation_text,
                               AllFactors("positive_factors")[i])
                          => AllFactors("positive_factors")[i]
                                 \in Entries(result.positive_factors)

\* the result of the call made with the business type in lower case
LowerCaseResult ==
    analyze_comprehensive_risk(args.cnpj, args.address_data, args.satellite_data,
                               Lower(args.business_type), args.declared_activity)

\* the three partial scores and the level of a result
ScoresAndLevel(res) ==
    <<res.detailed_assessment.address_risk.risk_score,
      res.detailed_assessment.satellite_risk.risk_score,
      res.detailed_assessment.compatibility_risk.risk_score,
      res.risk_level>>

\* C28: a call returns the same address, satellite and compatibility score
\* and the same risk_level as the call whose business_type differs from
\* its own only in the case of the letters
C28_CaseOfBusinessTypeNotScored ==
    Returned => ScoresAndLevel(result) = ScoresAndLevel(LowerCaseResult)

\* analyze_location is about to return result
LocationDone == pc = "location done"

\* the request has invoked the collaborator of that name
Invoked(name) == \E i \in DOMAIN calls : calls[i] = name

\* no configured provider sends bytes that count as an image
NoProviderYields ==
    /\ ~args.google_api_key \/ ~Truthy(_download_from_google(args.google))
    /\ ~args.mapbox_token \/ ~Truthy(_download_from_mapbox(args.mapbox))

\* Google is asked whenever its key is set, and Mapbox is asked only with no
\* Google key or after Google was asked and gave no image
GoogleFirst ==
    /\ args.google_api_key => calls # <<>> /\ calls[1] = "_download_from_google"
    /\ Invoked("_download_from_mapbox") =>
           \/ ~args.google_api_key
           \/ ~Truthy(_download_from_google(args.google))

\* C30: in a result of analyze_location analysis_completed implies
\* image_downloaded and error None; when no provider yields an image the
\* result has image_downloaded and analysis_completed false and error set,
\* and neither _computer_vision_analysis nor _ai_contextual_analysis was
\* called; Google is tried first, Mapbox only with Google unconfigured or
\* failed
C30_CompletedOnlyWithImage ==
    LocationDone =>
        /\ result.analysis_completed =>
               result.image_downloaded /\ result.error = "None"
        /\ NoProviderYields =>
               /\ ~result.image_downloaded
               /\ ~result.analysis_completed
               /\ result.error # "None"
               /\ ~Invoked("_computer_vision_analysis")
               /\ ~Invoked("_ai_contextual_analysis")
        /\ GoogleFirst

\* both providers are configured, both were asked and neither gave an image
C30_Witness ==
    /\ LocationDone
    /\ NoProviderYields
    /\ calls = <<"_download_from_google", "_download_from_mapbox">>
    /\ result.error = "Failed to download satellite image"

\* process_kyc_request is about to return result
KycDone == pc = "kyc done"

\* validate_address returned, and what it returned is not valid
ReportedInvalid == args.fault # "validate_address" /\ ~args.address_data.is_valid

\* C29: the collaborators process_kyc_request has invoked are, in order, the
\* first ones of validate_address, analyze_location,
\* analyze_comprehensive_risk; when validate_address reports is_valid false
\* the result has status 'completed', risk_level HIGH and recommendation
\* BLOCK and only validate_address was invoked; a returned result has status
\* 'completed' or 'error'
C29_StepsInOrderAndEarlyReturn ==
    KycDone =>
        /\ calls = Take(Steps, Len(calls))
        /\ ReportedInvalid =>
               /\ result.status = "completed"
               /\ result.risk_level = "HIGH"
               /\ result.recommendation = "BLOCK"
               /\ calls = <<"validate_address">>
        /\ result.status \in {"completed", "error"}

\* a request whose address was reported invalid has returned
C29_Witness ==
    /\ KycDone
    /\ ReportedInvalid
    /\ calls = <<"validate_address">>
    /\ result.recommendation = "BLOCK"

====
